---- MODULE Spec2Model ----
(***************************************************************************)
(* Verification model of syncServerDemo: the position arbitrator, the      *)
(* authority's report window and arbitration cycle, and the observer's     *)
(* kinematic state handling.                                               *)
(*                                                                         *)
(* float64 quantities (positions, velocities, distances) are modelled as   *)
(* exact rationals <<numerator, denominator>> in lowest terms with a       *)
(* positive denominator; int64 game times are integers (milliseconds).     *)
(***************************************************************************)
EXTENDS Integers, Sequences, FiniteSets, TLC

VARIABLES
    \* --- PositionArbitrator.Arbitrate applied to one input -----------------
    arbPc,        \* "input" before the call, "done" after it
    arbIn,        \* the positions slice handed to Arbitrate
    arbClusters,  \* clusters formed by clusterPositions, as index sequences
    arbMax,       \* index of the cluster Arbitrate selected (0: none selected)
    arbOut,       \* Arbitrate's return value (Nil for a nil pointer)
    \* --- observers (GameClient) -------------------------------------------
    wall,         \* the wall clock time.Now(), in milliseconds
    startTime,    \* [client -> wall instant its TimeSynchronizer maps to game time 0]
    localPlayers, \* [client -> [tracked PlayerID -> LocalPlayerState]]
    cliPc,        \* [client -> "recv" | "handle"]: position in messageLoop
    cliMsg,       \* [client -> the message messageLoop took last]
    cliCount,     \* [client -> number of messages taken so far]
    cliRunning,   \* [client -> GameClient.running]
    \* --- LocalTransport ---------------------------------------------------
    channels,     \* [registered client -> queue of messages to it]
    incoming,     \* queue of [ClientID, Message] to the server
    closed,       \* LocalTransport.closed
    \* --- authority (GameServer) -------------------------------------------
    srvStart,     \* wall instant the server's TimeSynchronizer maps to game time 0
    players,      \* [joined PlayerID -> PlayerState]
    positionReports, \* the report window [PlayerID -> [reporter -> PositionData]]
    reportMu,     \* holder of reportMu: "free", "msg" (messageLoop) or "arb"
    srvPc,        \* position of messageLoop
    srvMsg,       \* the [ClientID, Message] messageLoop is handling
    srvIdx,       \* handlePositionSync: index of the next entry of syncData.Positions
    srvSnap,      \* handleJoin: the positions snapshot taken under s.mu
    cycPc,        \* position of arbitrationLoop / performArbitration
    cycReports,   \* performArbitration: reports, the window taken for processing
    cycTodo,      \* performArbitration: keys of reports the range loop has not visited
    cycPositions, \* performArbitration: positions, the slice handed to Arbitrate last
    arbitratedPos, \* performArbitration: Arbitrate's result for that slice
    nSends,       \* number of messages the joined clients have sent so far
    \* --- direct calls and the participants' loops --------------------------
    lastCall,     \* the last direct call of a method: its name, arguments, result
    stopChan,     \* [participant -> TRUE once its stopChan is closed]
    loopPc        \* [goroutine -> "run" | "exited"]

arbVars == <<arbPc, arbIn, arbClusters, arbMax, arbOut>>
cliVars == <<wall, startTime, localPlayers, cliPc, cliMsg, cliCount>>
netVars == <<channels, incoming, closed>>
srvVars == <<srvStart, players, positionReports, reportMu, srvPc, srvMsg, srvIdx,
             srvSnap, cycPc, cycReports, cycTodo, cycPositions, arbitratedPos>>
envVars == <<cliRunning, nSends>>
otherVars == <<lastCall, stopChan, loopPc>>

vars == <<arbPc, arbIn, arbClusters, arbMax, arbOut,
          wall, startTime, localPlayers, cliPc, cliMsg, cliCount,
          cliRunning, channels, incoming, closed,
          srvStart, players, positionReports, reportMu, srvPc, srvMsg, srvIdx,
          srvSnap, cycPc, cycReports, cycTodo, cycPositions, arbitratedPos, nSends,
          lastCall, stopChan, loopPc>>

\* A nil pointer: a record that equals no PositionData.
Nil == [nil |-> TRUE]

\* The value of a message variable that holds no message.
NoMsg == [Type |-> "none"]

\* Client ids (main registers client_<i>) and the player ids they play.
Clients == {"client_0", "client_1", "client_2"}
PlayerIDs == {"Alice", "Bob", "Charlie"}
PlayerOf(c) ==
    CASE c = "client_0" -> "Alice" [] c = "client_1" -> "Bob" [] c = "client_2" -> "Charlie"

(***************************************************************************)
(* The quiescent state of each part: a specification that exercises one    *)
(* part keeps the others in it.                                            *)
(***************************************************************************)
ArbIdle ==
    /\ arbPc = "off"
    /\ arbIn = << >>
    /\ arbClusters = << >>
    /\ arbMax = 0
    /\ arbOut = Nil

CliIdle ==
    /\ wall = 0
    /\ startTime = [c \in Clients |-> 0]
    /\ localPlayers = [c \in Clients |-> << >>]
    /\ cliPc = [c \in Clients |-> "recv"]
    /\ cliMsg = [c \in Clients |-> NoMsg]
    /\ cliCount = [c \in Clients |-> 0]

SrvIdle ==
    /\ cliRunning = [c \in Clients |-> FALSE]
    /\ channels = << >>
    /\ incoming = << >>
    /\ closed = FALSE
    /\ srvStart = 0
    /\ players = << >>
    /\ positionReports = << >>
    /\ reportMu = "free"
    /\ srvPc = "recv"
    /\ srvMsg = [ClientID |-> "", Message |-> NoMsg]
    /\ srvIdx = 1
    /\ srvSnap = << >>
    /\ cycPc = "idle"
    /\ cycReports = << >>
    /\ cycTodo = {}
    /\ cycPositions = << >>
    /\ arbitratedPos = Nil
    /\ nSends = 0

\* The participants that own a stop signal, and the goroutines they start.
Participants == {"server"} \cup Clients
ServerLoops == {"messageLoop", "timeSyncLoop", "arbitrationLoop"}
ClientLoops == {"messageLoop", "syncLoop"}
Loops == { <<"server", l>> : l \in ServerLoops } \cup (Clients \X ClientLoops)

NoCall == [Op |-> "none"]

OtherIdle ==
    /\ lastCall = NoCall
    /\ stopChan = [p \in Participants |-> FALSE]
    /\ loopPc = [g \in Loops |-> "run"]

(***************************************************************************)
(* Bounds of the model.                                                    *)
(***************************************************************************)
MaxReports == 4
MaxWall == 202
MaxClientMsgs == 3
MaxIncoming == 1
MaxSends == 3
MaxCalls == 3

(***************************************************************************)
(* Exact rational arithmetic standing for float64 arithmetic.              *)
(***************************************************************************)
Abs(n) == IF n < 0 THEN -n ELSE n

RECURSIVE GCD(_, _)
GCD(a, b) == IF b = 0 THEN a ELSE GCD(b, a % b)

Norm(n, d) ==
    LET g == GCD(Abs(n), Abs(d))
        s == IF d < 0 THEN -1 ELSE 1
    IN  IF n = 0 THEN <<0, 1>> ELSE <<(s * n) \div g, (s * d) \div g>>

R(n) == <<n, 1>>
Frac(n, d) == Norm(n, d)
RAdd(a, b) == Norm(a[1] * b[2] + b[1] * a[2], a[2] * b[2])
RSub(a, b) == Norm(a[1] * b[2] - b[1] * a[2], a[2] * b[2])
RMul(a, b) == Norm(a[1] * b[1], a[2] * b[2])
RDivInt(a, k) == Norm(a[1], a[2] * k)
RLe(a, b) == a[1] * b[2] <= b[1] * a[2]
RLt(a, b) == a[1] * b[2] < b[1] * a[2]

\* Go's int64 division truncates toward zero.
TruncDiv(a, b) ==
    IF (a >= 0) = (b > 0) THEN Abs(a) \div Abs(b) ELSE -(Abs(a) \div Abs(b))

(***************************************************************************)
(* protocol.PositionData                                                   *)
(***************************************************************************)
PositionData(pid, x, y, t) == [PlayerID |-> pid, X |-> x, Y |-> y, GameTime |-> t]

(***************************************************************************)
(* PositionArbitrator                                                      *)
(***************************************************************************)
\* NewGameServer constructs the arbitrator with epsilon 1.0.
epsilon == R(1)

\* math.Sqrt(dx^2 + dy^2) <= epsilon, compared on the squares.
isSimilar(p1, p2) ==
    LET dx == RSub(p1.X, p2.X)
        dy == RSub(p1.Y, p2.Y)
    IN  RLe(RAdd(RMul(dx, dx), RMul(dy, dy)), RMul(epsilon, epsilon))

\* A variant of the inner loop that compares a candidate with the member
\* appended last instead of with the seed positions[i].
RECURSIVE clusterInnerChained(_, _, _, _)
clusterInnerChained(positions, i, j, st) ==
    IF j > Len(positions) THEN st
    ELSE IF st[2][j] THEN clusterInnerChained(positions, i, j + 1, st)
    ELSE IF isSimilar(positions[st[1][Len(st[1])]], positions[j])
         THEN clusterInnerChained(positions, i, j + 1,
                                  <<Append(st[1], j), [st[2] EXCEPT ![j] = TRUE]>>)
         ELSE clusterInnerChained(positions, i, j + 1, st)

\* The inner loop of clusterPositions: j runs from i+1 to the end; st is
\* <<cluster, used>>, cluster holding the indices appended so far.
RECURSIVE clusterInner(_, _, _, _)
clusterInner(positions, i, j, st) ==
    IF j > Len(positions) THEN st
    ELSE IF st[2][j] THEN clusterInner(positions, i, j + 1, st)
    ELSE IF isSimilar(positions[i], positions[j])
         THEN clusterInner(positions, i, j + 1,
                           <<Append(st[1], j), [st[2] EXCEPT ![j] = TRUE]>>)
         ELSE clusterInner(positions, i, j + 1, st)

\* The outer loop of clusterPositions: st is <<clusters, used>>.
RECURSIVE clusterOuter(_, _, _)
clusterOuter(positions, i, st) ==
    IF i > Len(positions) THEN st[1]
    ELSE IF st[2][i] THEN clusterOuter(positions, i + 1, st)
    ELSE LET inner == clusterInner(positions, i, i + 1,
                                   <<(<<i>>), [st[2] EXCEPT ![i] = TRUE]>>)
         IN  clusterOuter(positions, i + 1, <<Append(st[1], inner[1]), inner[2]>>)

\* clusterPositions, each cluster given by the indices of its members.
clusterIndices(positions) ==
    clusterOuter(positions, 1, <<(<< >>), [k \in 1..Len(positions) |-> FALSE]>>)

\* clusterPositions: the clusters as slices of PositionData.
clusterPositions(positions) ==
    LET idx == clusterIndices(positions)
    IN  [k \in 1..Len(idx) |-> [m \in 1..Len(idx[k]) |-> positions[idx[k][m]]]]

\* The selection loop of Arbitrate: best starts at the first cluster and is
\* replaced only by a strictly larger one.
RECURSIVE maxLoopLast(_, _, _)
maxLoopLast(clusters, k, best) ==
    IF k > Len(clusters) THEN best
    ELSE IF Len(clusters[k]) >= Len(clusters[best])
         THEN maxLoopLast(clusters, k + 1, k)
         ELSE maxLoopLast(clusters, k + 1, best)

RECURSIVE maxLoop(_, _, _)
maxLoop(clusters, k, best) ==
    IF k > Len(clusters) THEN best
    ELSE IF Len(clusters[k]) > Len(clusters[best])
         THEN maxLoop(clusters, k + 1, k)
         ELSE maxLoop(clusters, k + 1, best)

maxClusterIndexLast(clusters) == maxLoopLast(clusters, 1, 1)

maxClusterIndex(clusters) == maxLoop(clusters, 1, 1)

RECURSIVE sumX(_, _)
sumX(positions, k) ==
    IF k = 0 THEN R(0) ELSE RAdd(sumX(positions, k - 1), positions[k].X)

RECURSIVE sumY(_, _)
sumY(positions, k) ==
    IF k = 0 THEN R(0) ELSE RAdd(sumY(positions, k - 1), positions[k].Y)

RECURSIVE sumTime(_, _)
sumTime(positions, k) ==
    IF k = 0 THEN 0 ELSE sumTime(positions, k - 1) + positions[k].GameTime

averagePositionFirstTime(positions) ==
    IF Len(positions) = 0 THEN Nil
    ELSE PositionData(positions[1].PlayerID,
                      RDivInt(sumX(positions, Len(positions)), Len(positions)),
                      RDivInt(sumY(positions, Len(positions)), Len(positions)),
                      positions[1].GameTime)

averagePosition(positions) ==
    IF Len(positions) = 0 THEN Nil
    ELSE PositionData(positions[1].PlayerID,
                      RDivInt(sumX(positions, Len(positions)), Len(positions)),
                      RDivInt(sumY(positions, Len(positions)), Len(positions)),
                      TruncDiv(sumTime(positions, Len(positions)), Len(positions)))

\* A variant of Arbitrate that gives no verdict on a single report.
ArbitrateNeedsTwo(positions) ==
    IF Len(positions) < 2 THEN Nil
    ELSE LET clusters == clusterPositions(positions)
         IN  averagePosition(clusters[maxClusterIndex(clusters)])

ArbitrateAlwaysAverage(positions) ==
    IF Len(positions) <= 1 THEN Nil
    ELSE LET clusters == clusterPositions(positions)
         IN  averagePosition(clusters[maxClusterIndex(clusters)])

Arbitrate(positions) ==
    IF Len(positions) = 0 THEN Nil
    ELSE IF Len(positions) = 1 THEN positions[1]
    ELSE LET clusters == clusterPositions(positions)
         IN  averagePosition(clusters[maxClusterIndex(clusters)])

(***************************************************************************)
(* Messages (transport.BaseMessage with a protocol payload).               *)
(***************************************************************************)
MsgTypeWelcome        == "welcome"
MsgTypePlayerJoined   == "player_joined"
MsgTypeMoveCommand    == "move_command"
MsgTypeTimeSync       == "time_sync"
MsgTypePositionUpdate == "position_update"

WelcomeMsg(pid, t, positions) ==
    [Type |-> MsgTypeWelcome, PlayerID |-> pid, GameTime |-> t, Positions |-> positions]
PlayerJoinedMsg(pid) == [Type |-> MsgTypePlayerJoined, PlayerID |-> pid]
MoveCommandMsg(pid, vx, vy, t) ==
    [Type |-> MsgTypeMoveCommand, PlayerID |-> pid,
     VectorX |-> vx, VectorY |-> vy, GameTime |-> t]
TimeSyncMsg(t) == [Type |-> MsgTypeTimeSync, GameTime |-> t]
PositionUpdateMsg(pid, x, y, t) ==
    [Type |-> MsgTypePositionUpdate, PlayerID |-> pid, X |-> x, Y |-> y, GameTime |-> t]

(***************************************************************************)
(* TimeSynchronizer                                                        *)
(***************************************************************************)
\* GetGameTime: milliseconds elapsed since the epoch start.
GetGameTime(start) == wall - start

\* Reset in the place of SetGameTime: the epoch becomes the present instant.
SetGameTimeAsReset(gameTime) == wall

\* SetGameTime: the epoch start that makes GetGameTime read gameTime now.
SetGameTime(gameTime) == wall - gameTime

(***************************************************************************)
(* GameClient                                                              *)
(***************************************************************************)
\* NewGameClient: moveSpeed 10.0 units per second.
moveSpeed == R(10)

LocalPlayerState(pid, x, y, vx, vy, t) ==
    [PlayerID |-> pid, X |-> x, Y |-> y,
     VelocityX |-> vx, VelocityY |-> vy, LastUpdateTime |-> t]

\* deltaTime := float64(targetTime-player.LastUpdateTime) / 1000.0
deltaTime(player, targetTime) == Frac(targetTime - player.LastUpdateTime, 1000)

updatePlayerPositionSkip(player, targetTime) == player

\* A variant of updatePlayerPosition that refuses to move the checkpoint back.
updatePlayerPositionForwardOnly(player, targetTime) ==
    IF targetTime < player.LastUpdateTime THEN player
    ELSE [player EXCEPT
            !.X = RAdd(player.X, RMul(player.VelocityX, deltaTime(player, targetTime))),
            !.Y = RAdd(player.Y, RMul(player.VelocityY, deltaTime(player, targetTime))),
            !.LastUpdateTime = targetTime]

updatePlayerPosition(player, targetTime) ==
    [player EXCEPT
        !.X = RAdd(player.X, RMul(player.VelocityX, deltaTime(player, targetTime))),
        !.Y = RAdd(player.Y, RMul(player.VelocityY, deltaTime(player, targetTime))),
        !.LastUpdateTime = targetTime]

\* A variant of predictPosition that does not extrapolate backward.
predictPositionForwardOnly(player, targetTime) ==
    IF targetTime < player.LastUpdateTime THEN <<player.X, player.Y>>
    ELSE << RAdd(player.X, RMul(player.VelocityX, deltaTime(player, targetTime))),
            RAdd(player.Y, RMul(player.VelocityY, deltaTime(player, targetTime))) >>

predictPosition(player, targetTime) ==
    << RAdd(player.X, RMul(player.VelocityX, deltaTime(player, targetTime))),
       RAdd(player.Y, RMul(player.VelocityY, deltaTime(player, targetTime))) >>

\* handleWelcome's loop over welcomeData.Positions, from entry k on.
RECURSIVE welcomeLoop(_, _, _)
welcomeLoop(lp, positions, k) ==
    IF k > Len(positions) THEN lp
    ELSE LET pos == positions[k]
             st  == LocalPlayerState(pos.PlayerID, pos.X, pos.Y, R(0), R(0), pos.GameTime)
             dom == DOMAIN lp \cup {pos.PlayerID}
         IN  welcomeLoop([q \in dom |-> IF q = pos.PlayerID THEN st ELSE lp[q]],
                         positions, k + 1)

\* A variant of parseData's failure test that accepts every payload: the
\* handler goes on with what the decoder left in the target.
parseNeverFails(msg) == FALSE

\* parseData returns an error: the payload does not decode into the target
\* structure.  Such a message carries the field Malformed, next to the
\* (zero or partly decoded) values the decoder left in the target.
parseFails(msg) == "Malformed" \in DOMAIN msg

handleWelcome(c, msg) ==
    IF parseFails(msg) THEN UNCHANGED <<startTime, localPlayers>>
    ELSE /\ startTime' = [startTime EXCEPT ![c] = SetGameTime(msg.GameTime)]
         /\ localPlayers' = [localPlayers EXCEPT ![c] = welcomeLoop(@, msg.Positions, 1)]

handlePlayerJoined(c, msg) ==
    IF parseFails(msg) THEN UNCHANGED <<startTime, localPlayers>>
    ELSE /\ localPlayers' =
               IF msg.PlayerID \in DOMAIN localPlayers[c] THEN localPlayers
               ELSE [localPlayers EXCEPT ![c] =
                        [q \in DOMAIN @ \cup {msg.PlayerID} |->
                            IF q = msg.PlayerID
                            THEN LocalPlayerState(q, R(0), R(0), R(0), R(0),
                                                  GetGameTime(startTime[c]))
                            ELSE @[q]]]
         /\ UNCHANGED startTime

\* A variant of handleMoveCommand that creates a zero state for an entity
\* the client does not track, then advances it and sets its velocity.
moveCommandCreating(lp, msg) ==
    LET old == IF msg.PlayerID \in DOMAIN lp THEN lp[msg.PlayerID]
               ELSE LocalPlayerState(msg.PlayerID, R(0), R(0), R(0), R(0), 0)
        adv == updatePlayerPosition(old, msg.GameTime)
        new == [adv EXCEPT !.VelocityX = RMul(msg.VectorX, moveSpeed),
                           !.VelocityY = RMul(msg.VectorY, moveSpeed)]
    IN  [q \in DOMAIN lp \cup {msg.PlayerID} |->
            IF q = msg.PlayerID THEN new ELSE lp[q]]

\* The body of handleMoveCommand on the localPlayers map of one client.
moveCommand(lp, msg) ==
    IF msg.PlayerID \notin DOMAIN lp THEN lp
    ELSE LET adv == updatePlayerPosition(lp[msg.PlayerID], msg.GameTime)
         IN  [lp EXCEPT ![msg.PlayerID] =
                 [adv EXCEPT !.VelocityX = RMul(msg.VectorX, moveSpeed),
                             !.VelocityY = RMul(msg.VectorY, moveSpeed)]]

\* A variant of handleMoveCommand that commits the motion up to the
\* client's clock reading at arrival instead of the command's timestamp.
handleMoveCommandAtArrival(c, msg) ==
    /\ localPlayers' = [localPlayers EXCEPT ![c] =
                            moveCommand(@, [msg EXCEPT !.GameTime = GetGameTime(startTime[c])])]
    /\ UNCHANGED startTime

handleMoveCommand(c, msg) ==
    IF parseFails(msg) THEN UNCHANGED <<startTime, localPlayers>>
    ELSE /\ localPlayers' = [localPlayers EXCEPT ![c] = moveCommand(@, msg)]
         /\ UNCHANGED startTime

\* A variant of handleTimeSync that also rebases at a difference of 100.
handleTimeSyncAtThreshold(c, msg) ==
    LET localTime == GetGameTime(startTime[c])
        diff      == msg.GameTime - localTime
    IN  /\ startTime' = IF Abs(diff) >= 100
                        THEN [startTime EXCEPT ![c] = SetGameTime(msg.GameTime)]
                        ELSE startTime
        /\ UNCHANGED localPlayers

handleTimeSync(c, msg) ==
    IF parseFails(msg) THEN UNCHANGED <<startTime, localPlayers>>
    ELSE LET localTime == GetGameTime(startTime[c])
             diff      == msg.GameTime - localTime
         IN  /\ startTime' = IF Abs(diff) > 100
                             THEN [startTime EXCEPT ![c] = SetGameTime(msg.GameTime)]
                             ELSE startTime
             /\ UNCHANGED localPlayers

\* A variant of handlePositionUpdate that also corrects at distance 0.5.
positionUpdateAtThreshold(lp, msg) ==
    IF msg.PlayerID \notin DOMAIN lp THEN lp
    ELSE LET player == lp[msg.PlayerID]
             local  == predictPosition(player, msg.GameTime)
             errorX == RSub(msg.X, local[1])
             errorY == RSub(msg.Y, local[2])
             d2     == RAdd(RMul(errorX, errorX), RMul(errorY, errorY))
         IN  IF RLe(Frac(1, 4), d2)
             THEN [lp EXCEPT ![msg.PlayerID] =
                      [player EXCEPT !.X = msg.X, !.Y = msg.Y,
                                     !.LastUpdateTime = msg.GameTime]]
             ELSE lp

\* The body of handlePositionUpdate on the localPlayers map of one client:
\* distance > 0.5 is compared on the squares (4 * d^2 > 1).
positionUpdate(lp, msg) ==
    IF msg.PlayerID \notin DOMAIN lp THEN lp
    ELSE LET player == lp[msg.PlayerID]
             local  == predictPosition(player, msg.GameTime)
             errorX == RSub(msg.X, local[1])
             errorY == RSub(msg.Y, local[2])
             d2     == RAdd(RMul(errorX, errorX), RMul(errorY, errorY))
         IN  IF RLt(Frac(1, 4), d2)
             THEN [lp EXCEPT ![msg.PlayerID] =
                      [player EXCEPT !.X = msg.X, !.Y = msg.Y,
                                     !.LastUpdateTime = msg.GameTime]]
             ELSE lp

handlePositionUpdate(c, msg) ==
    IF parseFails(msg) THEN UNCHANGED <<startTime, localPlayers>>
    ELSE /\ localPlayers' = [localPlayers EXCEPT ![c] = positionUpdate(@, msg)]
         /\ UNCHANGED startTime

\* handleMessage: dispatch on the type tag; other tags are ignored.
handleMessage(c, msg) ==
    CASE msg.Type = MsgTypeWelcome        -> handleWelcome(c, msg)
      [] msg.Type = MsgTypePlayerJoined   -> handlePlayerJoined(c, msg)
      [] msg.Type = MsgTypeMoveCommand    -> handleMoveCommand(c, msg)
      [] msg.Type = MsgTypeTimeSync       -> handleTimeSync(c, msg)
      [] msg.Type = MsgTypePositionUpdate -> handlePositionUpdate(c, msg)
      [] OTHER                            -> UNCHANGED <<startTime, localPlayers>>

(***************************************************************************)
(* Specification SpecClient: observers fed with inbound messages drawn     *)
(* from bounded sets.                                                      *)
(***************************************************************************)
ObsClients == {"client_0"}
CliPlayers == {"Alice", "Bob"}
CliTimes == {0, 100, 2000}
CliVectors == { <<R(0), R(0)>>, <<R(1), R(0)>>, <<R(0), R(1)>> }
CliPoints == { <<R(0), R(0)>>, <<Frac(3, 10), Frac(4, 10)>>, <<Frac(6, 10), R(0)>> }

\* The roster snapshots a welcome may carry: one entry per listed player.
CliRosters ==
    { << PositionData("Alice", R(0), R(0), 0) >>,
      << PositionData("Alice", R(5), R(0), 100), PositionData("Bob", R(0), R(0), 100) >> }

CliInbound ==
    { WelcomeMsg(pid, t, ps) : pid \in {"Alice"}, t \in {100}, ps \in CliRosters }
    \cup { PlayerJoinedMsg(pid) : pid \in CliPlayers }
    \cup { MoveCommandMsg(pid, v[1], v[2], t) :
              pid \in CliPlayers, v \in CliVectors, t \in CliTimes }
    \cup { TimeSyncMsg(t) : t \in {0, 100, 201} }
    \cup { PositionUpdateMsg(pid, pt[1], pt[2], t) :
              pid \in {"Alice"}, pt \in CliPoints, t \in {0, 100} }

CliInit == CliIdle /\ ArbIdle /\ SrvIdle /\ OtherIdle

\* The wall clock advances.
Tick ==
    /\ \E d \in {100, 101} :
          /\ wall + d <= MaxWall
          /\ wall' = wall + d
    /\ UNCHANGED <<startTime, localPlayers, cliPc, cliMsg, cliCount>>
    /\ UNCHANGED <<arbVars, netVars, srvVars, envVars>>
    /\ UNCHANGED otherVars

\* messageLoop takes the next message from the client's channel.
ClientRecv(c) ==
    /\ cliPc[c] = "recv"
    /\ cliCount[c] < MaxClientMsgs
    /\ \E msg \in CliInbound : cliMsg' = [cliMsg EXCEPT ![c] = msg]
    /\ cliPc' = [cliPc EXCEPT ![c] = "handle"]
    /\ cliCount' = [cliCount EXCEPT ![c] = @ + 1]
    /\ UNCHANGED <<wall, startTime, localPlayers>>
    /\ UNCHANGED <<arbVars, netVars, srvVars, envVars>>
    /\ UNCHANGED otherVars

\* messageLoop calls handleMessage on the message taken.
ClientHandle(c) ==
    /\ cliPc[c] = "handle"
    /\ handleMessage(c, cliMsg[c])
    /\ cliPc' = [cliPc EXCEPT ![c] = "recv"]
    /\ UNCHANGED <<wall, cliMsg, cliCount>>
    /\ UNCHANGED <<arbVars, netVars, srvVars, envVars>>
    /\ UNCHANGED otherVars

CliNext ==
    \/ Tick
    \/ \E c \in ObsClients : ClientRecv(c)
    \/ \E c \in ObsClients : ClientHandle(c)

SpecClient == CliInit /\ [][CliNext]_vars

(***************************************************************************)
(* LocalTransport.  Send and Broadcast run under the transport's read lock *)
(* and are taken as one step each.  The incoming channel has capacity 100  *)
(* in the code; the model bounds it by MaxIncoming.                        *)
(***************************************************************************)
\* Register: make(chan Message, 100)
channelCapacity == 100

MsgTypeJoin         == "join"
MsgTypeMove         == "move"
MsgTypePositionSync == "position_sync"

JoinMsg(pid) == [Type |-> MsgTypeJoin, PlayerID |-> pid]
MoveMsg(pid, vx, vy, t) ==
    [Type |-> MsgTypeMove, PlayerID |-> pid, VectorX |-> vx, VectorY |-> vy, GameTime |-> t]
PositionSyncMsg(ps, t) == [Type |-> MsgTypePositionSync, Positions |-> ps, GameTime |-> t]

MessageWithSender(c, msg) == [ClientID |-> c, Message |-> msg]

\* Register: a new empty channel for clientID; an error leaves the map as it is.
Register(chs, c) ==
    IF closed \/ c \in DOMAIN chs THEN chs
    ELSE [q \in DOMAIN chs \cup {c} |-> IF q = c THEN << >> ELSE chs[q]]

\* A variant of Send that does not look at the closed flag.
SendIgnoringClosed(chs, c, msg) ==
    IF c \notin DOMAIN chs THEN chs
    ELSE IF Len(chs[c]) < channelCapacity THEN [chs EXCEPT ![c] = Append(@, msg)]
    ELSE chs

\* Send's return value: "nil" or the error.
SendErr(chs, c) ==
    IF closed THEN "transport is closed"
    ELSE IF c \notin DOMAIN chs THEN "client not found"
    ELSE IF Len(chs[c]) < channelCapacity THEN "nil"
    ELSE "client channel full"

\* Send: the channels after Send(clientID, msg); an error (closed, unknown
\* client, full channel) leaves them as they are.
Send(chs, c, msg) ==
    IF closed THEN chs
    ELSE IF c \notin DOMAIN chs THEN chs
    ELSE IF Len(chs[c]) < channelCapacity THEN [chs EXCEPT ![c] = Append(@, msg)]
    ELSE chs

\* A variant of Broadcast that returns at the first full channel, before
\* any delivery.
BroadcastStopAtFull(chs, msg, excludeID) ==
    IF closed THEN chs
    ELSE IF \E q \in DOMAIN chs : q # excludeID /\ Len(chs[q]) >= channelCapacity
    THEN chs
    ELSE [q \in DOMAIN chs |-> IF q = excludeID THEN chs[q] ELSE Append(chs[q], msg)]

\* Broadcast: the channels after Broadcast(msg, excludeID); a full channel
\* is skipped.
Broadcast(chs, msg, excludeID) ==
    IF closed THEN chs
    ELSE [q \in DOMAIN chs |->
             IF q = excludeID THEN chs[q]
             ELSE IF Len(chs[q]) < channelCapacity THEN Append(chs[q], msg)
             ELSE chs[q]]

\* SendToServer: the incoming queue after SendToServer(clientID, msg).
SendToServer(inc, c, msg) ==
    IF closed THEN inc
    ELSE IF Len(inc) < MaxIncoming THEN Append(inc, MessageWithSender(c, msg))
    ELSE inc

(***************************************************************************)
(* GameServer                                                              *)
(***************************************************************************)
PlayerState(pid, x, y, t) == [PlayerID |-> pid, X |-> x, Y |-> y, LastSync |-> t]

\* A fixed enumeration of a set of player ids, standing for one iteration
\* order of a map whose keys they are.
RECURSIVE SeqOfSet(_)
SeqOfSet(S) ==
    IF S = {} THEN << >>
    ELSE LET e == CHOOSE x \in S : TRUE IN <<e>> \o SeqOfSet(S \ {e})

\* All orders in which a range loop may visit the values of map m.
Orderings(m) ==
    { [k \in 1..Cardinality(DOMAIN m) |-> m[f[k]]] :
        f \in { g \in [1..Cardinality(DOMAIN m) -> DOMAIN m] :
                  \A a, b \in 1..Cardinality(DOMAIN m) : a # b => g[a] # g[b] } }

\* sync.Mutex.Lock returns only when nobody holds the mutex.
CanLockAlways(mu) == TRUE

CanLock(mu) == mu = "free"

\* messageLoop: Receive takes the next message from the incoming channel.
ServerReceive ==
    /\ srvPc = "recv"
    /\ incoming # << >>
    /\ srvMsg' = Head(incoming)
    /\ incoming' = Tail(incoming)
    /\ srvPc' = CASE Head(incoming).Message.Type = MsgTypeJoin         -> "join"
                  [] Head(incoming).Message.Type = MsgTypeMove         -> "move"
                  [] Head(incoming).Message.Type = MsgTypePositionSync -> "sync_lock"
                  [] OTHER                                             -> "recv"
    /\ UNCHANGED <<channels, closed, srvStart, players, positionReports, reportMu,
                   srvIdx, srvSnap, cycPc, cycReports, cycTodo, cycPositions,
                   arbitratedPos>>
    /\ UNCHANGED <<arbVars, cliVars, envVars>>
    /\ UNCHANGED otherVars

\* handleJoin, under s.mu: the roster entry is (re)set and the snapshot of
\* all players' positions is taken.  Each player appears once in the
\* snapshot, so the order of its entries is immaterial to the receiver.
HandleJoinRoster ==
    /\ srvPc = "join"
    /\ ~parseFails(srvMsg.Message)
    /\ LET pid == srvMsg.Message.PlayerID
           dom == DOMAIN players \cup {pid}
           new == [q \in dom |->
                     IF q = pid THEN PlayerState(pid, R(0), R(0), GetGameTime(srvStart))
                     ELSE players[q]]
           ord == SeqOfSet(dom)
       IN  /\ players' = new
           /\ srvSnap' = [k \in 1..Len(ord) |->
                            PositionData(ord[k], new[ord[k]].X, new[ord[k]].Y,
                                         new[ord[k]].LastSync)]
    /\ srvPc' = "join_send"
    /\ UNCHANGED <<netVars, srvStart, positionReports, reportMu, srvMsg, srvIdx,
                   cycPc, cycReports, cycTodo, cycPositions, arbitratedPos>>
    /\ UNCHANGED <<arbVars, cliVars, envVars>>
    /\ UNCHANGED otherVars

\* handleJoin: the welcome is sent to the joining client and player_joined
\* is broadcast to the others.
HandleJoinSend ==
    /\ srvPc = "join_send"
    /\ LET pid     == srvMsg.Message.PlayerID
           welcome == WelcomeMsg(pid, GetGameTime(srvStart), srvSnap)
       IN  channels' = Broadcast(Send(channels, srvMsg.ClientID, welcome),
                                 PlayerJoinedMsg(pid), srvMsg.ClientID)
    /\ srvSnap' = << >>
    /\ srvPc' = "recv"
    /\ srvMsg' = MessageWithSender("", NoMsg)
    /\ UNCHANGED <<incoming, closed, srvStart, players, positionReports, reportMu,
                   srvIdx, cycPc, cycReports, cycTodo, cycPositions,
                   arbitratedPos>>
    /\ UNCHANGED <<arbVars, cliVars, envVars>>
    /\ UNCHANGED otherVars

\* A variant of handleMove that leaves the sender out of the broadcast.
HandleMoveExcludingSender ==
    /\ srvPc = "move"
    /\ ~parseFails(srvMsg.Message)
    /\ LET m == srvMsg.Message
       IN  channels' = Broadcast(channels,
                                 MoveCommandMsg(m.PlayerID, m.VectorX, m.VectorY, m.GameTime),
                                 srvMsg.ClientID)
    /\ srvPc' = "recv"
    /\ srvMsg' = MessageWithSender("", NoMsg)
    /\ UNCHANGED <<incoming, closed, srvStart, players, positionReports, reportMu,
                   srvIdx, srvSnap, cycPc, cycReports, cycTodo, cycPositions,
                   arbitratedPos>>
    /\ UNCHANGED <<arbVars, cliVars, envVars>>
    /\ UNCHANGED otherVars

\* handleMove: the move data is broadcast as a move_command to everybody.
HandleMove ==
    /\ srvPc = "move"
    /\ ~parseFails(srvMsg.Message)
    /\ LET m == srvMsg.Message
       IN  channels' = Broadcast(channels,
                                 MoveCommandMsg(m.PlayerID, m.VectorX, m.VectorY, m.GameTime),
                                 "")
    /\ srvPc' = "recv"
    /\ srvMsg' = MessageWithSender("", NoMsg)
    /\ UNCHANGED <<incoming, closed, srvStart, players, positionReports, reportMu,
                   srvIdx, srvSnap, cycPc, cycReports, cycTodo, cycPositions,
                   arbitratedPos>>
    /\ UNCHANGED <<arbVars, cliVars, envVars>>
    /\ UNCHANGED otherVars

\* handlePositionSync: s.reportMu.Lock()
SyncLock ==
    /\ srvPc = "sync_lock"
    /\ ~parseFails(srvMsg.Message)
    /\ CanLock(reportMu)
    /\ reportMu' = "msg"
    /\ srvIdx' = 1
    /\ srvPc' = "sync_insert"
    /\ UNCHANGED <<netVars, srvStart, players, positionReports, srvMsg, srvSnap,
                   cycPc, cycReports, cycTodo, cycPositions, arbitratedPos>>
    /\ UNCHANGED <<arbVars, cliVars, envVars>>
    /\ UNCHANGED otherVars

\* s.positionReports[pos.PlayerID][clientID] = pos, creating the inner map
\* when it is missing.
upsertFirstWins(window, c, pos) ==
    IF pos.PlayerID \notin DOMAIN window
    THEN [q \in DOMAIN window \cup {pos.PlayerID} |->
             IF q = pos.PlayerID THEN [r \in {c} |-> pos] ELSE window[q]]
    ELSE IF c \in DOMAIN window[pos.PlayerID] THEN window
    ELSE [window EXCEPT ![pos.PlayerID] =
             [r \in DOMAIN @ \cup {c} |-> IF r = c THEN pos ELSE @[r]]]

upsert(window, c, pos) ==
    IF pos.PlayerID \notin DOMAIN window
    THEN [q \in DOMAIN window \cup {pos.PlayerID} |->
             IF q = pos.PlayerID THEN [r \in {c} |-> pos] ELSE window[q]]
    ELSE [window EXCEPT ![pos.PlayerID] =
             [r \in DOMAIN @ \cup {c} |-> IF r = c THEN pos ELSE @[r]]]

\* handlePositionSync: one iteration of the loop over syncData.Positions.
SyncInsert ==
    /\ srvPc = "sync_insert"
    /\ srvIdx <= Len(srvMsg.Message.Positions)
    /\ positionReports' =
          upsert(positionReports, srvMsg.ClientID, srvMsg.Message.Positions[srvIdx])
    /\ srvIdx' = srvIdx + 1
    /\ UNCHANGED <<netVars, srvStart, players, reportMu, srvPc, srvMsg, srvSnap,
                   cycPc, cycReports, cycTodo, cycPositions, arbitratedPos>>
    /\ UNCHANGED <<arbVars, cliVars, envVars>>
    /\ UNCHANGED otherVars

\* handlePositionSync: s.reportMu.Unlock() after the loop.
SyncUnlock ==
    /\ srvPc = "sync_insert"
    /\ srvIdx > Len(srvMsg.Message.Positions)
    /\ reportMu' = "free"
    /\ srvIdx' = 1
    /\ srvPc' = "recv"
    /\ srvMsg' = MessageWithSender("", NoMsg)
    /\ UNCHANGED <<netVars, srvStart, players, positionReports, srvSnap,
                   cycPc, cycReports, cycTodo, cycPositions, arbitratedPos>>
    /\ UNCHANGED <<arbVars, cliVars, envVars>>
    /\ UNCHANGED otherVars

\* arbitrationLoop: the ticker fires; performArbitration: s.reportMu.Lock()
CycleLock ==
    /\ cycPc = "idle"
    /\ CanLock(reportMu)
    /\ reportMu' = "arb"
    /\ cycPc' = "take"
    /\ UNCHANGED <<netVars, srvStart, players, positionReports, srvPc, srvMsg, srvIdx,
                   srvSnap, cycReports, cycTodo, cycPositions, arbitratedPos>>
    /\ UNCHANGED <<arbVars, cliVars, envVars>>
    /\ UNCHANGED otherVars

\* performArbitration: reports := s.positionReports
CycleTake ==
    /\ cycPc = "take"
    /\ cycReports' = positionReports
    /\ cycPc' = "replace"
    /\ UNCHANGED <<netVars, srvStart, players, positionReports, reportMu, srvPc, srvMsg,
                   srvIdx, srvSnap, cycTodo, cycPositions, arbitratedPos>>
    /\ UNCHANGED <<arbVars, cliVars, envVars>>
    /\ UNCHANGED otherVars

\* performArbitration: s.positionReports = make(...)
CycleReplace ==
    /\ cycPc = "replace"
    /\ positionReports' = << >>
    /\ cycPc' = "unlock"
    /\ UNCHANGED <<netVars, srvStart, players, reportMu, srvPc, srvMsg, srvIdx,
                   srvSnap, cycReports, cycTodo, cycPositions, arbitratedPos>>
    /\ UNCHANGED <<arbVars, cliVars, envVars>>
    /\ UNCHANGED otherVars

\* performArbitration: s.reportMu.Unlock(); an empty window ends the pass.
CycleUnlock ==
    /\ cycPc = "unlock"
    /\ reportMu' = "free"
    /\ cycTodo' = DOMAIN cycReports
    /\ cycPc' = IF DOMAIN cycReports = {} THEN "idle" ELSE "range"
    /\ UNCHANGED <<netVars, srvStart, players, positionReports, srvPc, srvMsg, srvIdx,
                   srvSnap, cycReports, cycPositions, arbitratedPos>>
    /\ UNCHANGED <<arbVars, cliVars, envVars>>
    /\ UNCHANGED otherVars

\* performArbitration, under s.mu: the player's record takes the arbitrated
\* position and time, if the player exists.
updatePlayerKeepTime(roster, playerID, res) ==
    IF playerID \in DOMAIN roster
    THEN [roster EXCEPT ![playerID] = [@ EXCEPT !.X = res.X, !.Y = res.Y]]
    ELSE roster

updatePlayer(roster, playerID, res) ==
    IF playerID \in DOMAIN roster
    THEN [roster EXCEPT ![playerID] =
             [@ EXCEPT !.X = res.X, !.Y = res.Y, !.LastSync = res.GameTime]]
    ELSE roster

\* performArbitration: one iteration of the loop over reports, up to the
\* update of s.players under s.mu.  The maps are ranged over in any order.
CycleArbitrate ==
    /\ cycPc = "range"
    /\ cycTodo # {}
    /\ \E playerID \in cycTodo : \E ps \in Orderings(cycReports[playerID]) :
          LET res == Arbitrate(ps)
          IN  /\ cycPositions' = ps
              /\ arbitratedPos' = res
              /\ cycTodo' = cycTodo \ {playerID}
              /\ players' = IF res # Nil THEN updatePlayer(players, playerID, res)
                            ELSE players
              /\ cycPc' = IF res # Nil THEN "bcast" ELSE "range"
    /\ UNCHANGED <<netVars, srvStart, positionReports, reportMu, srvPc, srvMsg, srvIdx,
                   srvSnap, cycReports>>
    /\ UNCHANGED <<arbVars, cliVars, envVars>>
    /\ UNCHANGED otherVars

\* performArbitration: the result is broadcast as a position_update.
CycleBroadcast ==
    /\ cycPc = "bcast"
    /\ channels' = Broadcast(channels,
                             PositionUpdateMsg(arbitratedPos.PlayerID, arbitratedPos.X,
                                               arbitratedPos.Y, arbitratedPos.GameTime),
                             "")
    /\ cycPc' = "range"
    /\ UNCHANGED <<incoming, closed, srvStart, players, positionReports, reportMu, srvPc,
                   srvMsg, srvIdx, srvSnap, cycReports, cycTodo, cycPositions,
                   arbitratedPos>>
    /\ UNCHANGED <<arbVars, cliVars, envVars>>
    /\ UNCHANGED otherVars

\* performArbitration returns when the loop has visited every key.
CycleEnd ==
    /\ cycPc = "range"
    /\ cycTodo = {}
    /\ cycPc' = "idle"
    /\ cycReports' = << >>
    /\ cycPositions' = << >>
    /\ arbitratedPos' = Nil
    /\ UNCHANGED <<netVars, srvStart, players, positionReports, reportMu, srvPc, srvMsg,
                   srvIdx, srvSnap, cycTodo>>
    /\ UNCHANGED <<arbVars, cliVars, envVars>>
    /\ UNCHANGED otherVars

\* handleJoin, handleMove, handlePositionSync: parseData returns an error,
\* which is logged, and the handler returns.
HandleParseError ==
    /\ srvPc \in {"join", "move", "sync_lock"}
    /\ parseFails(srvMsg.Message)
    /\ srvPc' = "recv"
    /\ UNCHANGED <<netVars, srvStart, players, positionReports, reportMu, srvMsg, srvIdx,
                   srvSnap, cycPc, cycReports, cycTodo, cycPositions, arbitratedPos>>
    /\ UNCHANGED <<arbVars, cliVars, envVars>>
    /\ UNCHANGED otherVars

(***************************************************************************)
(* Specification SpecServer: the authority and the transport, with main    *)
(* and its clients as the environment.  main registers and starts the      *)
(* clients one after the other; once all of them are in the roster they    *)
(* send up to MaxSends moves and position reports.  The clients' reading   *)
(* of their channels is the subject of SpecClient and is left out here:    *)
(* the server never reads the channels, and the messages of a run stay     *)
(* below channelCapacity.                                                  *)
(***************************************************************************)
\* The estimates each client reports: client_0 wavers between two.
ReportPoints(c) ==
    CASE c = "client_0" -> { <<R(10), R(0)>>, <<R(50), R(0)>> }
      [] c = "client_1" -> { <<Frac(103, 10), R(0)>> }
      [] c = "client_2" -> { <<R(50), R(0)>> }
SrvReportTimes == {150}
SrvVectors == { <<R(1), R(0)>> }

\* The sets of players one batch reports on.
ReportedSets == { {"Alice"}, {"Alice", "Bob"} }

\* main: localTransport.Register(clientID).  main registers and starts the
\* clients one after the other, in the order of their index.
Earlier(c) ==
    CASE c = "client_0" -> {}
      [] c = "client_1" -> {"client_0"}
      [] c = "client_2" -> {"client_0", "client_1"}

MainRegister(c) ==
    /\ c \notin DOMAIN channels
    /\ \A q \in Earlier(c) : cliRunning[q]
    /\ channels' = Register(channels, c)
    /\ UNCHANGED <<incoming, closed, srvVars>>
    /\ UNCHANGED <<arbVars, cliVars, envVars>>
    /\ UNCHANGED otherVars

\* GameClient.Start: running is set and the join request is sent.
ClientStart(c) ==
    /\ c \in DOMAIN channels
    /\ ~cliRunning[c]
    /\ Len(incoming) < MaxIncoming
    /\ cliRunning' = [cliRunning EXCEPT ![c] = TRUE]
    /\ incoming' = SendToServer(incoming, c, JoinMsg(PlayerOf(c)))
    /\ UNCHANGED <<channels, closed, srvVars, nSends>>
    /\ UNCHANGED <<arbVars, cliVars>>
    /\ UNCHANGED otherVars

\* GameClient.Move
ClientMove(c) ==
    /\ cliRunning[c]
    /\ DOMAIN players = PlayerIDs
    /\ nSends < MaxSends
    /\ Len(incoming) < MaxIncoming
    /\ nSends' = nSends + 1
    /\ \E v \in SrvVectors :
          incoming' = SendToServer(incoming, c,
                         MoveMsg(PlayerOf(c), v[1], v[2], GetGameTime(startTime[c])))
    /\ UNCHANGED <<channels, closed, srvVars, cliRunning>>
    /\ UNCHANGED <<arbVars, cliVars>>
    /\ UNCHANGED otherVars

\* GameClient.reportPositions: one entry per reported player, all with the
\* client's estimate and its reading of the game time.
ClientReport(c) ==
    /\ cliRunning[c]
    /\ DOMAIN players = PlayerIDs
    /\ nSends < MaxSends
    /\ Len(incoming) < MaxIncoming
    /\ nSends' = nSends + 1
    /\ \E S \in ReportedSets, pt \in ReportPoints(c), t \in SrvReportTimes :
          LET ord == SeqOfSet(S)
              ps  == [k \in 1..Len(ord) |-> PositionData(ord[k], pt[1], pt[2], t)]
          IN  incoming' = SendToServer(incoming, c, PositionSyncMsg(ps, t))
    /\ UNCHANGED <<channels, closed, srvVars, cliRunning>>
    /\ UNCHANGED <<arbVars, cliVars>>
    /\ UNCHANGED otherVars

SrvInit == SrvIdle /\ CliIdle /\ ArbIdle /\ OtherIdle

SrvNext ==
    \/ \E c \in Clients : MainRegister(c)
    \/ \E c \in Clients : ClientStart(c)
    \/ \E c \in Clients : ClientMove(c)
    \/ \E c \in Clients : ClientReport(c)
    \/ ServerReceive
    \/ HandleJoinRoster
    \/ HandleJoinSend
    \/ HandleMove
    \/ SyncLock
    \/ SyncInsert
    \/ SyncUnlock
    \/ CycleLock
    \/ CycleTake
    \/ CycleReplace
    \/ CycleUnlock
    \/ CycleArbitrate
    \/ CycleBroadcast
    \/ CycleEnd

SpecServer == SrvInit /\ [][SrvNext]_vars

(***************************************************************************)
(* Specification SpecKin: the kinematic methods of one GameClient called   *)
(* directly on tracked states, with arguments drawn from bounded sets.     *)
(* States are created with zero velocity, as handleWelcome creates them;   *)
(* velocities arise from move commands.  A client that has not handled its *)
(* welcome yet tracks nobody.                                              *)
(***************************************************************************)
KinClient == "client_0"
KinTimes == {0, 2000}
KinStarts == {0, -2000}
KinVectors == { <<R(1), R(0)>>, <<R(0), R(0)>> }
KinRosters ==
    { << >>,
      << PositionData("Alice", R(0), R(0), 0) >>,
      << PositionData("Alice", R(3), R(4), 2000), PositionData("Bob", R(0), R(0), 0) >> }

KinInit ==
    /\ ArbIdle
    /\ SrvIdle
    /\ OtherIdle
    /\ wall = 0
    /\ cliPc = [c \in Clients |-> "recv"]
    /\ cliMsg = [c \in Clients |-> NoMsg]
    /\ cliCount = [c \in Clients |-> 0]
    /\ \E start \in KinStarts :
          startTime = [c \in Clients |-> IF c = KinClient THEN start ELSE 0]
    /\ \E roster \in KinRosters :
          localPlayers = [c \in Clients |->
                             IF c = KinClient THEN welcomeLoop(<< >>, roster, 1)
                             ELSE << >>]

\* What a call leaves alone besides the client's tracked states and clock.
KinFrame(c) ==
    /\ cliCount[c] < MaxCalls
    /\ cliCount' = [cliCount EXCEPT ![c] = @ + 1]
    /\ UNCHANGED <<wall, cliPc, cliMsg, stopChan, loopPc>>
    /\ UNCHANGED <<arbVars, channels, closed, srvVars, envVars>>

\* c.updatePlayerPosition(player, targetTime)
updatePlayerPositionCall(c) ==
    /\ \E pid \in DOMAIN localPlayers[c], t \in KinTimes :
          /\ localPlayers' = [localPlayers EXCEPT
                                 ![c][pid] = updatePlayerPosition(@, t)]
          /\ lastCall' = [Op |-> "updatePlayerPosition", PlayerID |-> pid,
                          targetTime |-> t]
    /\ KinFrame(c)
    /\ UNCHANGED <<startTime, incoming>>

\* c.predictPosition(player, targetTime)
predictPositionCall(c) ==
    /\ \E pid \in DOMAIN localPlayers[c], t \in KinTimes :
          lastCall' = [Op |-> "predictPosition", PlayerID |-> pid, targetTime |-> t,
                       Out |-> predictPosition(localPlayers[c][pid], t)]
    /\ KinFrame(c)
    /\ UNCHANGED <<startTime, localPlayers, incoming>>

\* A variant of GetPlayerPosition that commits the projection to the state.
GetPlayerPositionCallAdvancing(c) ==
    /\ \E playerID \in PlayerIDs :
          LET gameTime == GetGameTime(startTime[c])
          IN  IF playerID \notin DOMAIN localPlayers[c]
              THEN /\ lastCall' = [Op |-> "GetPlayerPosition", PlayerID |-> playerID,
                                   Out |-> <<R(0), R(0), FALSE>>]
                   /\ UNCHANGED localPlayers
              ELSE /\ lastCall' =
                         [Op |-> "GetPlayerPosition", PlayerID |-> playerID,
                          Out |-> predictPosition(localPlayers[c][playerID], gameTime)
                                     \o <<TRUE>>]
                   /\ localPlayers' = [localPlayers EXCEPT
                                          ![c][playerID] = updatePlayerPosition(@, gameTime)]
    /\ KinFrame(c)
    /\ UNCHANGED <<startTime, incoming>>

\* c.GetPlayerPosition(playerID)
GetPlayerPositionCall(c) ==
    /\ \E playerID \in PlayerIDs :
          LET gameTime == GetGameTime(startTime[c])
          IN  lastCall' =
                 [Op |-> "GetPlayerPosition", PlayerID |-> playerID,
                  Out |-> IF playerID \notin DOMAIN localPlayers[c]
                          THEN <<R(0), R(0), FALSE>>
                          ELSE predictPosition(localPlayers[c][playerID], gameTime)
                                  \o <<TRUE>>]
    /\ KinFrame(c)
    /\ UNCHANGED <<startTime, localPlayers, incoming>>

\* A variant of reportBatch that reports the stored positions.
reportBatchStored(lp, ord, gameTime) ==
    [k \in 1..Len(ord) |-> PositionData(ord[k].PlayerID, ord[k].X, ord[k].Y, gameTime)]

\* The batch reportPositions builds from the tracked states lp at gameTime,
\* given the order ord in which the range loop visits them.
reportBatch(lp, ord, gameTime) ==
    [k \in 1..Len(ord) |->
        LET xy == predictPosition(ord[k], gameTime)
        IN  PositionData(ord[k].PlayerID, xy[1], xy[2], gameTime)]

\* c.reportPositions()
reportPositionsCall(c) ==
    /\ \E ord \in Orderings(localPlayers[c]) :
          LET gameTime  == GetGameTime(startTime[c])
              positions == reportBatch(localPlayers[c], ord, gameTime)
          IN  /\ incoming' = IF Len(positions) > 0
                             THEN SendToServer(incoming, c,
                                               PositionSyncMsg(positions, gameTime))
                             ELSE incoming
              /\ lastCall' = [Op |-> "reportPositions", Positions |-> positions]
    /\ KinFrame(c)
    /\ UNCHANGED <<startTime, localPlayers>>

\* c.handleMoveCommand(msg)
handleMoveCommandCall(c) ==
    /\ \E pid \in DOMAIN localPlayers[c], v \in KinVectors, t \in KinTimes :
          LET msg == MoveCommandMsg(pid, v[1], v[2], t)
          IN  /\ handleMoveCommand(c, msg)
              /\ lastCall' = [Op |-> "handleMoveCommand", PlayerID |-> pid,
                              targetTime |-> t]
    /\ KinFrame(c)
    /\ UNCHANGED incoming

KinNext ==
    \/ updatePlayerPositionCall(KinClient)
    \/ predictPositionCall(KinClient)
    \/ GetPlayerPositionCall(KinClient)
    \/ reportPositionsCall(KinClient)
    \/ handleMoveCommandCall(KinClient)

SpecKin == KinInit /\ [][KinNext]_vars

(***************************************************************************)
(* Specification SpecTransport: the methods of LocalTransport called       *)
(* directly.  client_0 is registered and its channel is empty or one       *)
(* message short of full (a client that has fallen behind); client_2 is    *)
(* never registered.                                                       *)
(***************************************************************************)
NetMsgs == { TimeSyncMsg(0), TimeSyncMsg(100) }
NetFills == {0, channelCapacity - 1}
NetRegistrable == {"client_0", "client_1"}

NetInit ==
    /\ ArbIdle
    /\ CliIdle
    /\ lastCall = [Op |-> "none", N |-> 0]
    /\ stopChan = [p \in Participants |-> FALSE]
    /\ loopPc = [g \in Loops |-> "run"]
    /\ cliRunning = [c \in Clients |-> FALSE]
    /\ \E fill \in NetFills :
          channels = [c \in {"client_0"} |-> [k \in 1..fill |-> TimeSyncMsg(0)]]
    /\ incoming = << >>
    /\ closed = FALSE
    /\ srvStart = 0
    /\ players = << >>
    /\ positionReports = << >>
    /\ reportMu = "free"
    /\ srvPc = "recv"
    /\ srvMsg = MessageWithSender("", NoMsg)
    /\ srvIdx = 1
    /\ srvSnap = << >>
    /\ cycPc = "idle"
    /\ cycReports = << >>
    /\ cycTodo = {}
    /\ cycPositions = << >>
    /\ arbitratedPos = Nil
    /\ nSends = 0

\* The process has panicked: a crashed process makes no further call.
Crashed ==
    /\ lastCall.Op = "Unregister"
    /\ lastCall.Err = "panic: close of closed channel"

\* What a transport call leaves alone, and the count of calls.
NetFrame ==
    /\ ~Crashed
    /\ lastCall.N < MaxCalls
    /\ lastCall'.N = lastCall.N + 1
    /\ UNCHANGED <<arbVars, cliVars, srvVars, envVars, stopChan, loopPc>>

\* t.Register(clientID)
RegisterCall(c) ==
    /\ channels' = Register(channels, c)
    /\ lastCall' = [Op |-> "Register", ClientID |-> c, N |-> lastCall.N + 1,
                    Err |-> IF closed THEN "transport is closed"
                            ELSE IF c \in DOMAIN channels THEN "already registered"
                            ELSE "nil"]
    /\ NetFrame
    /\ UNCHANGED <<incoming, closed>>

\* t.Unregister(clientID): the channel is closed and deleted from the map.
\* After Close the channel is closed already and closing it again panics.
UnregisterCall(c) ==
    /\ channels' = IF closed /\ c \in DOMAIN channels THEN channels
                   ELSE [q \in DOMAIN channels \ {c} |-> channels[q]]
    /\ lastCall' = [Op |-> "Unregister", ClientID |-> c, N |-> lastCall.N + 1,
                    Err |-> IF closed /\ c \in DOMAIN channels
                            THEN "panic: close of closed channel" ELSE "nil"]
    /\ NetFrame
    /\ UNCHANGED <<incoming, closed>>

\* t.Send(clientID, msg)
SendCall(c) ==
    /\ \E msg \in NetMsgs :
          /\ channels' = Send(channels, c, msg)
          /\ lastCall' = [Op |-> "Send", ClientID |-> c, Msg |-> msg,
                          N |-> lastCall.N + 1, Err |-> SendErr(channels, c)]
    /\ NetFrame
    /\ UNCHANGED <<incoming, closed>>

\* t.Broadcast(msg, excludeID)
BroadcastCall(excludeID) ==
    /\ \E msg \in NetMsgs :
          /\ channels' = Broadcast(channels, msg, excludeID)
          /\ lastCall' = [Op |-> "Broadcast", ClientID |-> excludeID, Msg |-> msg,
                          N |-> lastCall.N + 1,
                          Err |-> IF closed THEN "transport is closed" ELSE "nil"]
    /\ NetFrame
    /\ UNCHANGED <<incoming, closed>>

\* t.SendToServer(clientID, msg)
SendToServerCall(c) ==
    /\ \E msg \in NetMsgs :
          /\ incoming' = SendToServer(incoming, c, msg)
          /\ lastCall' = [Op |-> "SendToServer", ClientID |-> c, Msg |-> msg,
                          N |-> lastCall.N + 1,
                          Err |-> IF closed THEN "transport is closed"
                                  ELSE IF Len(incoming) < MaxIncoming THEN "nil"
                                  ELSE "server incoming channel full"]
    /\ NetFrame
    /\ UNCHANGED <<channels, closed>>

\* t.Receive(): blocks while incoming is empty and open.
ReceiveCall ==
    /\ incoming # << >> \/ closed
    /\ incoming' = IF incoming # << >> THEN Tail(incoming) ELSE incoming
    /\ lastCall' = IF incoming # << >>
                   THEN [Op |-> "Receive", ClientID |-> Head(incoming).ClientID,
                         Msg |-> Head(incoming).Message, N |-> lastCall.N + 1,
                         Err |-> "nil"]
                   ELSE [Op |-> "Receive", ClientID |-> "", Msg |-> NoMsg,
                         N |-> lastCall.N + 1, Err |-> "transport closed"]
    /\ NetFrame
    /\ UNCHANGED <<channels, closed>>

\* A client reads the next message from the channel GetClientChannel gave it.
ChannelReadCall(c) ==
    /\ c \in DOMAIN channels
    /\ channels[c] # << >>
    /\ channels' = [channels EXCEPT ![c] = Tail(@)]
    /\ lastCall' = [Op |-> "ChannelRead", ClientID |-> c, Msg |-> Head(channels[c]),
                    N |-> lastCall.N + 1, Err |-> "nil"]
    /\ NetFrame
    /\ UNCHANGED <<incoming, closed>>

\* t.Close()
CloseCall ==
    /\ closed' = TRUE
    /\ lastCall' = [Op |-> "Close", N |-> lastCall.N + 1, Err |-> "nil"]
    /\ NetFrame
    /\ UNCHANGED <<channels, incoming>>

NetNext ==
    \/ \E c \in NetRegistrable : RegisterCall(c)
    \/ \E c \in NetRegistrable : UnregisterCall(c)
    \/ \E c \in Clients : SendCall(c)
    \/ \E x \in Clients \cup {""} : BroadcastCall(x)
    \/ \E c \in Clients : SendToServerCall(c)
    \/ ReceiveCall
    \/ \E c \in Clients : ChannelReadCall(c)
    \/ CloseCall

SpecTransport == NetInit /\ [][NetNext]_vars

(***************************************************************************)
(* Specification SpecSystem: the authority, the transport and the          *)
(* observers together.  main registers and starts the clients one after    *)
(* the other (two of them here); a started client may call Move at any     *)
(* moment, also before the next client has joined; every client's messageLoop takes the        *)
(* messages of its channel and handles them.  Messages are handled within  *)
(* the millisecond they are sent in.  Position reports and the             *)
(* arbitration cycle are left out: no report is sent in these runs.        *)
(***************************************************************************)
SysClients == {"client_0", "client_1"}
SysVectors == { <<R(1), R(0)>> }

\* messageLoop: the range over the client's channel yields its next message.
ClientTake(c) ==
    /\ cliRunning[c] \/ stopChan[c]
    /\ cliPc[c] = "recv"
    /\ c \in DOMAIN channels
    /\ channels[c] # << >>
    /\ cliMsg' = [cliMsg EXCEPT ![c] = Head(channels[c])]
    /\ channels' = [channels EXCEPT ![c] = Tail(@)]
    /\ cliPc' = [cliPc EXCEPT ![c] = "handle"]
    /\ cliCount' = [cliCount EXCEPT ![c] = @ + 1]
    /\ UNCHANGED <<wall, startTime, localPlayers, incoming, closed>>
    /\ UNCHANGED <<arbVars, srvVars, envVars>>
    /\ UNCHANGED otherVars

\* GameClient.Move, called on a started client.
MoveCall(c) ==
    /\ cliRunning[c]
    /\ nSends < MaxSends
    /\ Len(incoming) < MaxIncoming
    /\ nSends' = nSends + 1
    /\ \E v \in SysVectors :
          incoming' = SendToServer(incoming, c,
                         MoveMsg(PlayerOf(c), v[1], v[2], GetGameTime(startTime[c])))
    /\ UNCHANGED <<channels, closed, srvVars, cliRunning>>
    /\ UNCHANGED <<arbVars, cliVars>>
    /\ UNCHANGED otherVars

\* Every message sent so far has been processed: the server and every
\* client wait for a message and there is none.
Quiescent ==
    /\ incoming = << >>
    /\ srvPc = "recv"
    /\ \A c \in Clients : cliPc[c] = "recv"
    /\ \A c \in DOMAIN channels : channels[c] = << >>

\* main sleeps between its calls, long enough for the messages in flight to
\* be handled: the wall clock advances when nothing is in flight.
SysTick ==
    /\ Quiescent
    /\ Tick

SysInit == SrvIdle /\ CliIdle /\ ArbIdle /\ OtherIdle

SysNext ==
    \/ SysTick
    \/ \E c \in SysClients : MainRegister(c)
    \/ \E c \in SysClients : ClientStart(c)
    \/ \E c \in SysClients : MoveCall(c)
    \/ ServerReceive
    \/ HandleJoinRoster
    \/ HandleJoinSend
    \/ HandleMove
    \/ \E c \in SysClients : ClientTake(c)
    \/ \E c \in SysClients : ClientHandle(c)

SpecSystem == SysInit /\ [][SysNext]_vars

(***************************************************************************)
(* Specification SpecStop: the loops of the participants and their stop    *)
(* signals.  main registers and starts one client; the server's           *)
(* messageLoop handles its join, its timeSyncLoop broadcasts the game      *)
(* time when its ticker fires, the client's messageLoop takes and handles  *)
(* what arrives.  Stop may be called on any started participant at any     *)
(* moment.  The bodies run on the tickers of syncLoop and arbitrationLoop  *)
(* (a position report, an arbitration pass) always return and are the      *)
(* subject of SpecServer; here these two loops wait or exit.               *)
(***************************************************************************)
StopClients == {"client_0"}

\* GameClient.Start, called once on a client.
StartCall(c) ==
    /\ ~stopChan[c]
    /\ ClientStart(c)

\* GameServer.messageLoop: s.running was read as true and Receive yields
\* a message.
MessageLoopReceive ==
    /\ loopPc[<<"server", "messageLoop">>] = "run"
    /\ ServerReceive

\* GameServer.messageLoop leaves the loop: s.running is read as false, or
\* Receive fails on the closed and drained incoming channel.
MessageLoopExit ==
    /\ loopPc[<<"server", "messageLoop">>] = "run"
    /\ srvPc = "recv"
    /\ stopChan["server"] \/ (closed /\ incoming = << >>)
    /\ loopPc' = [loopPc EXCEPT ![<<"server", "messageLoop">>] = "exited"]
    /\ UNCHANGED <<arbVars, cliVars, netVars, srvVars, envVars, lastCall, stopChan>>

\* GameServer.timeSyncLoop: the ticker fires and the game time is broadcast.
TimeSyncTick ==
    /\ loopPc[<<"server", "timeSyncLoop">>] = "run"
    /\ \E d \in {100, 101} :
          /\ wall + d <= MaxWall
          /\ wall' = wall + d
          /\ channels' = Broadcast(channels, TimeSyncMsg(wall + d - srvStart), "")
    /\ UNCHANGED <<startTime, localPlayers, cliPc, cliMsg, cliCount, incoming, closed>>
    /\ UNCHANGED <<arbVars, srvVars, envVars>>
    /\ UNCHANGED otherVars

\* A server loop that selects on s.stopChan returns once it is closed.
ServerLoopExit(l) ==
    /\ loopPc[<<"server", l>>] = "run"
    /\ stopChan["server"]
    /\ loopPc' = [loopPc EXCEPT ![<<"server", l>>] = "exited"]
    /\ UNCHANGED <<arbVars, cliVars, netVars, srvVars, envVars, lastCall, stopChan>>

TimeSyncLoopExit == ServerLoopExit("timeSyncLoop")

ArbitrationLoopExit ==
    /\ cycPc = "idle"
    /\ ServerLoopExit("arbitrationLoop")

\* GameServer.Stop: s.running = false; close(s.stopChan)
ServerStop ==
    /\ ~stopChan["server"]
    /\ stopChan' = [stopChan EXCEPT !["server"] = TRUE]
    /\ UNCHANGED <<arbVars, cliVars, netVars, srvVars, envVars, lastCall, loopPc>>

\* GameServer.Stop: s.transport.Close() closes incoming and every client
\* channel.
ServerStopClose ==
    /\ stopChan["server"]
    /\ ~closed
    /\ closed' = TRUE
    /\ UNCHANGED <<channels, incoming>>
    /\ UNCHANGED <<arbVars, cliVars, srvVars, envVars, otherVars>>

\* GameClient.Stop: c.running = false; close(c.stopChan)
ClientStop(c) ==
    /\ cliRunning[c]
    /\ ~stopChan[c]
    /\ cliRunning' = [cliRunning EXCEPT ![c] = FALSE]
    /\ stopChan' = [stopChan EXCEPT ![c] = TRUE]
    /\ UNCHANGED <<arbVars, cliVars, netVars, srvVars, nSends, lastCall, loopPc>>

\* GameClient.messageLoop: the range over the channel yields a message.
ClientLoopTake(c) ==
    /\ loopPc[<<c, "messageLoop">>] = "run"
    /\ ClientTake(c)

\* GameClient.messageLoop: the range ends when the channel is closed and
\* drained.  The loop does not look at c.stopChan.
ClientMessageLoopExit(c) ==
    /\ cliRunning[c] \/ stopChan[c]
    /\ loopPc[<<c, "messageLoop">>] = "run"
    /\ cliPc[c] = "recv"
    /\ closed
    /\ channels[c] = << >>
    /\ loopPc' = [loopPc EXCEPT ![<<c, "messageLoop">>] = "exited"]
    /\ UNCHANGED <<arbVars, cliVars, netVars, srvVars, envVars, lastCall, stopChan>>

\* GameClient.syncLoop returns once c.stopChan is closed.
SyncLoopExit(c) ==
    /\ loopPc[<<c, "syncLoop">>] = "run"
    /\ stopChan[c]
    /\ loopPc' = [loopPc EXCEPT ![<<c, "syncLoop">>] = "exited"]
    /\ UNCHANGED <<arbVars, cliVars, netVars, srvVars, envVars, lastCall, stopChan>>

StopInit == SrvIdle /\ CliIdle /\ ArbIdle /\ OtherIdle

StopNext ==
    \/ \E c \in StopClients : MainRegister(c)
    \/ \E c \in StopClients : StartCall(c)
    \/ MessageLoopReceive
    \/ HandleJoinRoster
    \/ HandleJoinSend
    \/ MessageLoopExit
    \/ TimeSyncTick
    \/ TimeSyncLoopExit
    \/ ArbitrationLoopExit
    \/ ServerStop
    \/ ServerStopClose
    \/ \E c \in StopClients : ClientStop(c)
    \/ \E c \in StopClients : ClientLoopTake(c)
    \/ \E c \in StopClients : ClientHandle(c)
    \/ \E c \in StopClients : ClientMessageLoopExit(c)
    \/ \E c \in StopClients : SyncLoopExit(c)

\* Every goroutine that can take a step eventually takes one, and a call
\* of GameServer.Stop runs to its end.  Nothing obliges main to call Stop.
StopFairness ==
    /\ WF_vars(MessageLoopReceive \/ HandleJoinRoster \/ HandleJoinSend \/ MessageLoopExit)
    /\ WF_vars(TimeSyncLoopExit)
    /\ WF_vars(ArbitrationLoopExit)
    /\ WF_vars(ServerStopClose)
    /\ \A c \in StopClients :
          /\ WF_vars(ClientLoopTake(c) \/ ClientHandle(c) \/ ClientMessageLoopExit(c))
          /\ WF_vars(SyncLoopExit(c))

SpecStop == StopInit /\ [][StopNext]_vars /\ StopFairness

(***************************************************************************)
(* Specification SpecRace: clients call SendToServer while the server is   *)
(* stopped.  SendToServer takes no lock: it reads t.closed and then tries  *)
(* to enqueue, and Close may run between the two.  The read of t.closed    *)
(* races with Close's write, so that after Close it yields either value.   *)
(* lastCall holds the call of SendToServer in progress or returned last.   *)
(***************************************************************************)
RaceInit ==
    /\ SrvIdle
    /\ CliIdle
    /\ ArbIdle
    /\ lastCall = [Op |-> "none", N |-> 0]
    /\ stopChan = [p \in Participants |-> FALSE]
    /\ loopPc = [g \in Loops |-> "run"]

\* A send on the closed incoming channel has panicked: the process is gone.
SendPanicked ==
    /\ lastCall.Op = "SendToServer"
    /\ lastCall.Err = "panic: send on closed channel"

SendInProgress ==
    /\ lastCall.Op = "SendToServer"
    /\ lastCall.Err = "checked"

\* SendToServer: if t.closed { return error }
SendToServerCheck(c) ==
    /\ ~SendPanicked
    /\ ~SendInProgress
    /\ lastCall.N < MaxCalls
    /\ \E msg \in NetMsgs, seen \in (IF closed THEN {TRUE, FALSE} ELSE {FALSE}) :
          lastCall' = [Op |-> "SendToServer", ClientID |-> c, Msg |-> msg,
                       N |-> lastCall.N + 1,
                       Err |-> IF seen THEN "transport is closed" ELSE "checked"]
    /\ UNCHANGED <<arbVars, cliVars, netVars, srvVars, envVars, stopChan, loopPc>>

\* SendToServer: the select that sends on t.incoming or takes the default
\* branch.  A send on a closed channel panics.
SendToServerEnqueue ==
    /\ SendInProgress
    /\ incoming' =
          IF ~closed /\ Len(incoming) < MaxIncoming
          THEN Append(incoming, MessageWithSender(lastCall.ClientID, lastCall.Msg))
          ELSE incoming
    /\ lastCall' = [lastCall EXCEPT !.Err =
                       IF closed THEN "panic: send on closed channel"
                       ELSE IF Len(incoming) < MaxIncoming THEN "nil"
                       ELSE "server incoming channel full"]
    /\ UNCHANGED <<channels, closed>>
    /\ UNCHANGED <<arbVars, cliVars, srvVars, envVars, stopChan, loopPc>>

RaceNext ==
    \/ \E c \in Clients : SendToServerCheck(c)
    \/ SendToServerEnqueue
    \/ ~SendPanicked /\ MessageLoopReceive
    \/ ~SendPanicked /\ MessageLoopExit
    \/ ~SendPanicked /\ ServerStop
    \/ ~SendPanicked /\ ServerStopClose

SpecRace == RaceInit /\ [][RaceNext]_vars

(***************************************************************************)
(* Specification SpecTwin: two observers whose clocks may differ track the *)
(* same entity at the same position with zero velocity (checkpoints may    *)
(* differ: one learnt of the entity from its welcome, the other from       *)
(* player_joined).  The entity's player calls Move; the server             *)
(* rebroadcasts each move to both; each observer takes and handles the     *)
(* commands at its own pace while the wall clock advances.                 *)
(***************************************************************************)
TwinClients == {"client_0", "client_1"}
TwinPlayers == {"Alice"}
TwinMovers == {"client_0"}
TwinStarts == {0, -50}
TwinCheckpoints == {0, 100}
TwinPoints == { <<R(0), R(0)>>, <<R(3), R(4)>> }
TwinVectors == { <<R(1), R(0)>>, <<R(0), R(1)>> }

TwinInit ==
    /\ ArbIdle
    /\ OtherIdle
    /\ wall = 0
    /\ \E st \in TwinStarts :
          startTime = [c \in Clients |-> IF c = "client_1" THEN st ELSE 0]
    /\ \E pt \in TwinPoints, cp \in TwinCheckpoints :
          localPlayers =
             [c \in Clients |->
                 IF c \in TwinClients
                 THEN [pid \in TwinPlayers |->
                          LocalPlayerState(pid, pt[1], pt[2], R(0), R(0),
                                           IF c = "client_1" THEN cp ELSE 0)]
                 ELSE << >>]
    /\ cliPc = [c \in Clients |-> "recv"]
    /\ cliMsg = [c \in Clients |-> NoMsg]
    /\ cliCount = [c \in Clients |-> 0]
    /\ cliRunning = [c \in Clients |-> c \in TwinClients]
    /\ channels = [c \in TwinClients |-> << >>]
    /\ incoming = << >>
    /\ closed = FALSE
    /\ srvStart = 0
    /\ players = [pid \in TwinPlayers |-> PlayerState(pid, R(0), R(0), 0)]
    /\ positionReports = << >>
    /\ reportMu = "free"
    /\ srvPc = "recv"
    /\ srvMsg = MessageWithSender("", NoMsg)
    /\ srvIdx = 1
    /\ srvSnap = << >>
    /\ cycPc = "idle"
    /\ cycReports = << >>
    /\ cycTodo = {}
    /\ cycPositions = << >>
    /\ arbitratedPos = Nil
    /\ nSends = 0

\* GameClient.Move with one of the direction vectors.
TwinMove(c) ==
    /\ cliRunning[c]
    /\ nSends < MaxSends
    /\ Len(incoming) < MaxIncoming
    /\ nSends' = nSends + 1
    /\ \E v \in TwinVectors :
          incoming' = SendToServer(incoming, c,
                         MoveMsg(PlayerOf(c), v[1], v[2], GetGameTime(startTime[c])))
    /\ UNCHANGED <<channels, closed, srvVars, cliRunning>>
    /\ UNCHANGED <<arbVars, cliVars>>
    /\ UNCHANGED otherVars

TwinNext ==
    \/ Tick
    \/ \E c \in TwinMovers : TwinMove(c)
    \/ ServerReceive
    \/ HandleMove
    \/ \E c \in TwinClients : ClientTake(c)
    \/ \E c \in TwinClients : ClientHandle(c)

SpecTwin == TwinInit /\ [][TwinNext]_vars

(***************************************************************************)
(* Specification SpecDecode: the message loops of the server and of one    *)
(* client fed with well-formed messages, with messages whose payload does  *)
(* not decode, and with messages of an unknown type.  No time passes.      *)
(***************************************************************************)
DecClient == "client_0"

\* msg with a payload that fails to decode after the fields shown.
Malformed(msg) ==
    [f \in DOMAIN msg \cup {"Malformed"} |-> IF f = "Malformed" THEN TRUE ELSE msg[f]]

UnknownMsg == [Type |-> "ping"]

DecClientWellFormed ==
    { WelcomeMsg("Alice", 100, << PositionData("Alice", R(0), R(0), 0) >>),
      PlayerJoinedMsg("Bob"),
      MoveCommandMsg("Alice", R(1), R(0), 100),
      TimeSyncMsg(201),
      PositionUpdateMsg("Alice", R(5), R(0), 100) }

DecClientInbound ==
    DecClientWellFormed \cup { Malformed(msg) : msg \in DecClientWellFormed }
        \cup {UnknownMsg}

DecServerWellFormed ==
    { JoinMsg("Alice"),
      MoveMsg("Alice", R(1), R(0), 0),
      PositionSyncMsg(<< PositionData("Alice", R(1), R(0), 0) >>, 0) }

DecServerInbound ==
    DecServerWellFormed \cup { Malformed(msg) : msg \in DecServerWellFormed }
        \cup {UnknownMsg}

DecInit ==
    /\ ArbIdle
    /\ CliIdle
    /\ OtherIdle
    /\ cliRunning = [c \in Clients |-> c = DecClient]
    /\ channels = [c \in {DecClient} |-> << >>]
    /\ incoming = << >>
    /\ closed = FALSE
    /\ srvStart = 0
    /\ players = << >>
    /\ positionReports = << >>
    /\ reportMu = "free"
    /\ srvPc = "recv"
    /\ srvMsg = MessageWithSender("", NoMsg)
    /\ srvIdx = 1
    /\ srvSnap = << >>
    /\ cycPc = "idle"
    /\ cycReports = << >>
    /\ cycTodo = {}
    /\ cycPositions = << >>
    /\ arbitratedPos = Nil
    /\ nSends = 0

\* The client's messageLoop takes a message from its channel.
DecClientRecv(c) ==
    /\ cliPc[c] = "recv"
    /\ cliCount[c] < MaxClientMsgs
    /\ \E msg \in DecClientInbound : cliMsg' = [cliMsg EXCEPT ![c] = msg]
    /\ cliPc' = [cliPc EXCEPT ![c] = "handle"]
    /\ cliCount' = [cliCount EXCEPT ![c] = @ + 1]
    /\ UNCHANGED <<wall, startTime, localPlayers>>
    /\ UNCHANGED <<arbVars, netVars, srvVars, envVars>>
    /\ UNCHANGED otherVars

\* A message reaches the server's incoming queue.
DecSend(c) ==
    /\ nSends < MaxSends
    /\ Len(incoming) < MaxIncoming
    /\ nSends' = nSends + 1
    /\ \E msg \in DecServerInbound : incoming' = SendToServer(incoming, c, msg)
    /\ UNCHANGED <<channels, closed, srvVars, cliRunning>>
    /\ UNCHANGED <<arbVars, cliVars>>
    /\ UNCHANGED otherVars

DecNext ==
    \/ DecClientRecv(DecClient)
    \/ ClientHandle(DecClient)
    \/ DecSend(DecClient)
    \/ ServerReceive
    \/ HandleParseError
    \/ HandleJoinRoster
    \/ HandleJoinSend
    \/ HandleMove
    \/ SyncLock
    \/ SyncInsert
    \/ SyncUnlock

SpecDecode == DecInit /\ [][DecNext]_vars

(***************************************************************************)
(* Specification SpecArb: Arbitrate applied to bounded inputs.             *)
(***************************************************************************)
ArbPlayers == {"Alice", "Bob"}
ArbPoints ==
    { <<R(0), R(0)>>, <<R(0), Frac(9, 10)>>, <<R(0), Frac(18, 10)>>,
      <<R(0), R(1)>> }
ArbTimes == {100, 205}

ArbReports(pid) ==
    { PositionData(pid, pt[1], pt[2], t) : pt \in ArbPoints, t \in ArbTimes }

SeqsUpTo(S, n) == UNION { [1..k -> S] : k \in 0..n }

ArbInit ==
    /\ CliIdle
    /\ SrvIdle
    /\ arbPc = "input"
    /\ \E pid \in ArbPlayers : arbIn \in SeqsUpTo(ArbReports(pid), MaxReports)
    /\ arbClusters = << >>
    /\ arbMax = 0
    /\ arbOut = Nil
    /\ OtherIdle

ArbitrateCall ==
    /\ arbPc = "input"
    /\ arbPc' = "done"
    /\ arbClusters' = IF Len(arbIn) >= 2 THEN clusterIndices(arbIn) ELSE << >>
    /\ arbMax' = IF Len(arbIn) >= 2
                 THEN maxClusterIndex(clusterPositions(arbIn)) ELSE 0
    /\ arbOut' = Arbitrate(arbIn)
    /\ UNCHANGED arbIn
    /\ UNCHANGED <<cliVars, netVars, srvVars, envVars>>
    /\ UNCHANGED otherVars

ArbNext == ArbitrateCall

SpecArb == ArbInit /\ [][ArbNext]_vars

(***************************************************************************)
(* Properties of Arbitrate (specification SpecArb).                        *)
(***************************************************************************)
Range(s) == { s[k] : k \in 1..Len(s) }

Min(S) == CHOOSE m \in S : \A k \in S : m <= k

\* Squared Euclidean distance of two reports at most 1.0 squared.
WithinOne(p, q) ==
    LET dx == RSub(p.X, q.X)
        dy == RSub(p.Y, q.Y)
        d2 == RAdd(RMul(dx, dx), RMul(dy, dy))
    IN  d2[1] <= d2[2]

\* Indices assigned to the clusters formed before cluster k.
EarlierMembers(k) == UNION { Range(arbClusters[m]) : m \in 1..(k - 1) }

\* Sums over the members (indices into arbIn) of a cluster.
RECURSIVE MemberSumX(_)
MemberSumX(S) ==
    IF S = {} THEN R(0)
    ELSE LET e == CHOOSE x \in S : TRUE IN RAdd(arbIn[e].X, MemberSumX(S \ {e}))

RECURSIVE MemberSumY(_)
MemberSumY(S) ==
    IF S = {} THEN R(0)
    ELSE LET e == CHOOSE x \in S : TRUE IN RAdd(arbIn[e].Y, MemberSumY(S \ {e}))

RECURSIVE MemberSumTime(_)
MemberSumTime(S) ==
    IF S = {} THEN 0
    ELSE LET e == CHOOSE x \in S : TRUE IN arbIn[e].GameTime + MemberSumTime(S \ {e})

ExampleABC ==
    /\ Len(arbIn) = 3
    /\ <<arbIn[1].X, arbIn[1].Y>> = <<R(0), R(0)>>
    /\ <<arbIn[2].X, arbIn[2].Y>> = <<R(0), Frac(9, 10)>>
    /\ <<arbIn[3].X, arbIn[3].Y>> = <<R(0), Frac(18, 10)>>

\* C1: for two or more reports the clusters are formed in input order; each
\* cluster is seeded by the first report not yet assigned and holds, besides
\* the seed, exactly the later unassigned reports within epsilon of the seed.
\* For A=(0,0), B=(0,0.9), C=(0,1.8) in that order the clusters are {A,B} and
\* {C} and the result is (0, 0.45).
C1_SeedRelativeClusters ==
    (arbPc = "done" /\ Len(arbIn) >= 2) =>
        /\ \A i \in 1..Len(arbIn) :
              Cardinality({ k \in 1..Len(arbClusters) : i \in Range(arbClusters[k]) }) = 1
        /\ \A k \in 1..Len(arbClusters) :
              LET c    == arbClusters[k]
                  free == (1..Len(arbIn)) \ EarlierMembers(k)
                  seed == c[1]
              IN  /\ seed = Min(free)
                  /\ \A m \in 1..(Len(c) - 1) : c[m] < c[m + 1]
                  /\ Range(c) = {seed} \cup
                        { j \in free : j > seed /\ WithinOne(arbIn[seed], arbIn[j]) }
        /\ ExampleABC =>
              /\ arbClusters = << <<1, 2>>, <<3>> >>
              /\ arbOut.X = R(0)
              /\ arbOut.Y = Frac(45, 100)

C1_Witness ==
    /\ arbPc = "done"
    /\ ExampleABC
    /\ arbClusters = << <<1, 2>>, <<3>> >>

\* C2: for two or more reports the selected cluster has maximal size among
\* the clusters formed, and every cluster formed before it is strictly
\* smaller (among clusters of maximal size the first formed is selected).
C2_LargestFirstFormed ==
    (arbPc = "done" /\ Len(arbIn) >= 2) =>
        /\ arbMax \in 1..Len(arbClusters)
        /\ \A k \in 1..Len(arbClusters) :
              Len(arbClusters[k]) <= Len(arbClusters[arbMax])
        /\ \A k \in 1..(arbMax - 1) :
              Len(arbClusters[k]) < Len(arbClusters[arbMax])

C2_Witness ==
    /\ arbPc = "done"
    /\ Len(arbClusters) = 2
    /\ Len(arbClusters[1]) = 2
    /\ Len(arbClusters[2]) = 2
    /\ arbMax = 1

\* C3: Arbitrate of the empty sequence is nil, of a one-element sequence is
\* that element unchanged, and is never nil for a non-empty sequence.
C3_EmptyAndSingle ==
    arbPc = "done" =>
        /\ Len(arbIn) = 0 => arbOut = Nil
        /\ Len(arbIn) = 1 => arbOut = arbIn[1]
        /\ Len(arbIn) > 0 => arbOut # Nil

C3_Witness ==
    /\ arbPc = "done"
    /\ Len(arbIn) = 1
    /\ arbOut = arbIn[1]
    /\ arbOut.GameTime = 205

\* C4: for two or more reports the output is the mean of the selected
\* cluster: x and y are the sums divided by the member count, the time is
\* the sum of the times divided by the count truncating, and the entity id
\* is the members'.
C4_ClusterMean ==
    (arbPc = "done" /\ Len(arbIn) >= 2) =>
        LET members == Range(arbClusters[arbMax])
            n       == Cardinality(members)
            st      == MemberSumTime(members)
        IN  /\ RMul(arbOut.X, R(n)) = MemberSumX(members)
            /\ RMul(arbOut.Y, R(n)) = MemberSumY(members)
            /\ arbOut.GameTime * n <= st
            /\ st < (arbOut.GameTime + 1) * n
            /\ \A i \in members : arbOut.PlayerID = arbIn[i].PlayerID

C4_Witness ==
    /\ arbPc = "done"
    /\ Len(arbIn) >= 3
    /\ Len(arbClusters[arbMax]) = 3
    /\ arbOut.GameTime = 170
    /\ arbOut.Y = Frac(19, 30)

(***************************************************************************)
(* Properties of the observer's move handling (specification SpecClient).  *)
(***************************************************************************)
\* Client c completes handleMessage on a move_command in this step.
HandlesMove(c) ==
    /\ cliPc[c] = "handle"
    /\ cliPc'[c] = "recv"
    /\ cliMsg[c].Type = MsgTypeMoveCommand

\* The position the state's velocity implies at time t, by the formula
\* position + velocity * (t - checkpoint) / 1000.
ImpliedAt(st, t) ==
    << RAdd(st.X, RMul(st.VelocityX, Frac(t - st.LastUpdateTime, 1000))),
       RAdd(st.Y, RMul(st.VelocityY, Frac(t - st.LastUpdateTime, 1000))) >>

\* C9: handling a move_command for a tracked entity commits the motion under
\* the old velocity up to the event's time before the velocity changes:
\* afterwards the stored position, and so the prediction at the event's
\* time, is the position the old velocity implied at that time, the
\* checkpoint is the event's time, and the velocity is the event's vector
\* times the movement speed 10.
C9_CommitBeforeVelocityChange ==
    [][ \A c \in Clients :
          (HandlesMove(c) /\ cliMsg[c].PlayerID \in DOMAIN localPlayers[c]) =>
              LET m   == cliMsg[c]
                  old == localPlayers[c][m.PlayerID]
                  new == localPlayers'[c][m.PlayerID]
              IN  /\ predictPosition(new, m.GameTime) = ImpliedAt(old, m.GameTime)
                  /\ <<new.X, new.Y>> = ImpliedAt(old, m.GameTime)
                  /\ new.LastUpdateTime = m.GameTime
                  /\ new.VelocityX = RMul(m.VectorX, R(10))
                  /\ new.VelocityY = RMul(m.VectorY, R(10))
      ]_vars

C9_Witness ==
    \E c \in Clients :
        /\ cliPc[c] = "recv"
        /\ cliMsg[c] = MoveCommandMsg("Alice", R(0), R(1), 2000)
        /\ "Alice" \in DOMAIN localPlayers[c]
        /\ localPlayers[c]["Alice"] =
              LocalPlayerState("Alice", R(20), R(0), R(0), R(10), 2000)

\* C10 as claimed: a move_command for an entity the observer does not track
\* creates a zero state, advances it to the event's time and gives it the
\* event's velocity, so the entity is tracked afterwards.
C10_CreatesUntracked ==
    [][ \A c \in Clients :
          (HandlesMove(c) /\ cliMsg[c].PlayerID \notin DOMAIN localPlayers[c]) =>
              LET m == cliMsg[c]
              IN  /\ m.PlayerID \in DOMAIN localPlayers'[c]
                  /\ localPlayers'[c][m.PlayerID] =
                        LocalPlayerState(m.PlayerID, R(0), R(0),
                                         RMul(m.VectorX, R(10)),
                                         RMul(m.VectorY, R(10)), m.GameTime)
      ]_vars

\* C10 amended: a move_command for an entity the observer does not track is
\* ignored: no state is created, the entity stays untracked, and the
\* observer's states and clock are unchanged.
C10_IgnoresUntracked ==
    [][ \A c \in Clients :
          (HandlesMove(c) /\ cliMsg[c].PlayerID \notin DOMAIN localPlayers[c]) =>
              /\ localPlayers' = localPlayers
              /\ startTime' = startTime
      ]_vars

C10_Witness ==
    \E c \in Clients :
        /\ cliPc[c] = "recv"
        /\ cliMsg[c].Type = MsgTypeMoveCommand
        /\ cliMsg[c].PlayerID \notin DOMAIN localPlayers[c]
        /\ DOMAIN localPlayers[c] # {}

(***************************************************************************)
(* Claims about the authority's report window and arbitration cycle,       *)
(* under SpecServer.                                                       *)
(***************************************************************************)
\* The entities the running pass has already handed to Arbitrate.
Handed == IF cycPc \in {"range", "bcast"} THEN DOMAIN cycReports \ cycTodo ELSE {}

\* The (entity, observer) pairs a window holds a report for.
Pairs(window) ==
    UNION { { <<e, o>> : o \in DOMAIN window[e] } : e \in DOMAIN window }

SameResult(a, b) == a.X = b.X /\ a.Y = b.Y /\ a.GameTime = b.GameTime

StoredIs(e, r) ==
    /\ e \in DOMAIN players
    /\ players[e].X = r.X
    /\ players[e].Y = r.Y
    /\ players[e].LastSync = r.GameTime

\* C5: the arbitrated position of an entity is the same for every order in
\* which the authority may hand the entity's buffered reports to Arbitrate:
\* whenever a result is about to be broadcast, every ordering of the taken
\* reports of that entity arbitrates to the same x, y and logical time.
C5_OrderIndependent ==
    cycPc = "bcast" =>
        \A s \in Orderings(cycReports[arbitratedPos.PlayerID]) :
            Arbitrate(s) # Nil /\ SameResult(Arbitrate(s), arbitratedPos)

\* C6: in every arbitration cycle a result of Arbitrate for an entity is
\* stored as the authority's position and time of that entity, it is still
\* stored when the cycle ends, and a position_update carrying exactly the
\* result is appended to the channel of every registered client; three
\* observers reporting (10,0), (10.3,0) and (50,0) yield (10.15,0).
C6_ResultAtBroadcast ==
    cycPc = "bcast" =>
        /\ arbitratedPos # Nil
        /\ cycPositions \in Orderings(cycReports[arbitratedPos.PlayerID])
        /\ arbitratedPos = Arbitrate(cycPositions)
        /\ StoredIs(arbitratedPos.PlayerID, arbitratedPos)
        /\ ( /\ Len(cycPositions) = 3
             /\ { <<cycPositions[k].X, cycPositions[k].Y>> : k \in 1..3 } =
                    { <<R(10), R(0)>>, <<Frac(103, 10), R(0)>>, <<R(50), R(0)>> }
             => arbitratedPos.X = Frac(203, 20) /\ arbitratedPos.Y = R(0) )

C6_StoredThroughCycle ==
    \A e \in Handed :
        \E s \in Orderings(cycReports[e]) :
            Arbitrate(s) # Nil /\ StoredIs(e, Arbitrate(s))

C6_BroadcastStep ==
    /\ cycPc = "bcast" /\ cycPc' # "bcast" =>
          /\ DOMAIN channels = Clients
          /\ \A c \in DOMAIN channels :
                channels'[c] =
                    Append(channels[c],
                           PositionUpdateMsg(arbitratedPos.PlayerID, arbitratedPos.X,
                                             arbitratedPos.Y, arbitratedPos.GameTime))
    /\ \A e \in DOMAIN players :
          players'[e] # players[e] =>
              \/ srvPc = "join" /\ srvMsg.Message.PlayerID = e
              \/ cycPc = "range" /\ e \in cycTodo /\ cycTodo' = cycTodo \ {e}

C6_BroadcastAndStored ==
    /\ [](C6_ResultAtBroadcast /\ C6_StoredThroughCycle)
    /\ [][C6_BroadcastStep]_vars

\* The three-observer example has been arbitrated, stored and broadcast to
\* every client.
C6_Witness ==
    /\ cycPc = "range"
    /\ arbitratedPos # Nil
    /\ Len(cycPositions) = 3
    /\ arbitratedPos.X = Frac(203, 20)
    /\ players[arbitratedPos.PlayerID].X = Frac(203, 20)
    /\ \A c \in Clients :
          /\ c \in DOMAIN channels
          /\ channels[c] # << >>
          /\ channels[c][Len(channels[c])] =
                PositionUpdateMsg(arbitratedPos.PlayerID, Frac(203, 20), R(0), 150)

\* C7: the window swap is atomic with respect to inserts.  The window
\* changes only by an insert made while no pass is between its lock and its
\* unlock, or by the swap, which empties it when the taken window equals it
\* (nothing is lost, and what was taken cannot be taken again); the taken
\* window changes only when it is taken and when the pass ends, so no later
\* insert is read by the pass; the pass hands each entity of the taken
\* window to Arbitrate exactly once, with all its reports, before it ends.
C7_Step ==
    /\ positionReports' # positionReports =>
          \/ /\ srvPc = "sync_insert"
             /\ cycPc \notin {"take", "replace", "unlock"}
             /\ positionReports' =
                   upsert(positionReports, srvMsg.ClientID,
                          srvMsg.Message.Positions[srvIdx])
          \/ /\ cycPc = "replace"
             /\ srvPc # "sync_insert"
             /\ cycReports = positionReports
             /\ positionReports' = << >>
    /\ cycReports' # cycReports =>
          \/ cycPc = "take" /\ cycReports' = positionReports
          \/ cycPc = "range" /\ cycTodo = {} /\ cycReports' = << >>
    /\ cycTodo' # cycTodo =>
          \/ cycPc = "unlock" /\ cycTodo' = DOMAIN cycReports
          \/ \E e \in cycTodo :
                /\ cycTodo' = cycTodo \ {e}
                /\ cycPositions' \in Orderings(cycReports[e])

C7_SwapAtomic == [][C7_Step]_vars

\* A pass is processing the window it took while the next window already
\* holds a report inserted after the swap.
C7_Witness ==
    /\ cycPc \in {"range", "bcast"}
    /\ cycTodo # {}
    /\ Pairs(cycReports) # {}
    /\ Pairs(positionReports) # {}

\* C8: the window holds one report per (entity, observer) pair, filed under
\* the entity it is about; while a batch is handled, every entry handled so
\* far is the stored report of its pair (last write wins), and an insert
\* changes the report of no other pair.
C8_HandledEntriesStored ==
    /\ \A e \in DOMAIN positionReports :
          \A o \in DOMAIN positionReports[e] :
              o \in Clients /\ positionReports[e][o].PlayerID = e
    /\ srvPc = "sync_insert" =>
          \A k \in 1..(srvIdx - 1) :
              LET pos == srvMsg.Message.Positions[k]
              IN  /\ <<pos.PlayerID, srvMsg.ClientID>> \in Pairs(positionReports)
                  /\ positionReports[pos.PlayerID][srvMsg.ClientID] = pos

C8_InsertStep ==
    srvPc = "sync_insert" /\ srvIdx' = srvIdx + 1 =>
        LET pos == srvMsg.Message.Positions[srvIdx]
            own == <<pos.PlayerID, srvMsg.ClientID>>
        IN  /\ Pairs(positionReports') = Pairs(positionReports) \cup {own}
            /\ positionReports'[own[1]][own[2]] = pos
            /\ \A pr \in Pairs(positionReports) \ {own} :
                  positionReports'[pr[1]][pr[2]] = positionReports[pr[1]][pr[2]]

C8_LastWriteWins == [](C8_HandledEntriesStored) /\ [][C8_InsertStep]_vars

\* client_0's batch on Alice and Bob has been handled in a window that
\* already held another observer's report on Alice.
C8_Witness ==
    /\ srvPc = "sync_insert"
    /\ srvMsg.ClientID = "client_0"
    /\ Len(srvMsg.Message.Positions) = 2
    /\ srvIdx = 3
    /\ Pairs(positionReports) =
          { <<"Alice", "client_0">>, <<"Bob", "client_0">>, <<"Alice", "client_2">> }
    /\ positionReports["Alice"]["client_0"].X = R(50)
    /\ positionReports["Alice"]["client_2"].X = R(50)

\* A step of the arbitration pass that visits entity e of the taken window.
Visits(e) == cycPc = "range" /\ e \in cycTodo /\ cycTodo' = cycTodo \ {e}

\* The channels receive a position_update in this step.
UpdateSent ==
    \E c \in DOMAIN channels :
        /\ Len(channels'[c]) > Len(channels[c])
        /\ channels'[c][Len(channels'[c])].Type = MsgTypePositionUpdate

\* C23: in each arbitration cycle a position_update is broadcast for an
\* entity if and only if the taken window holds a report for it, and then
\* exactly once: every entity of the taken window holds at least one
\* report, the pass visits each of them once, every visit is followed by
\* the broadcast of one position_update for the visited entity to every
\* client, and no position_update is sent otherwise; a pass that took an
\* empty window ends without a broadcast and without a change of the
\* stored positions.
C23_TakenWindow ==
    /\ cycPc \in {"range", "bcast"} =>
          /\ cycTodo \subseteq DOMAIN cycReports
          /\ \A e \in DOMAIN cycReports : DOMAIN cycReports[e] # {}
    /\ cycPc = "bcast" =>
          /\ arbitratedPos # Nil
          /\ arbitratedPos.PlayerID \in DOMAIN cycReports \ cycTodo

C23_CycleStep ==
    /\ \A e \in PlayerIDs :
          Visits(e) => cycPc' = "bcast" /\ arbitratedPos'.PlayerID = e
    /\ (cycTodo' # cycTodo /\ cycPc = "range") => \E e \in cycTodo : Visits(e)
    /\ (cycPc = "range" /\ cycPc' = "idle") => cycTodo = {}
    /\ (cycPc = "unlock" /\ cycPc' # cycPc) =>
          /\ cycTodo' = DOMAIN cycReports
          /\ cycPc' = IF cycReports = << >> THEN "idle" ELSE "range"
    /\ (cycPc # "bcast" /\ cycPc' = "bcast") => \E e \in cycTodo : Visits(e)
    /\ (cycPc = "bcast" /\ cycPc' # cycPc) =>
          /\ cycPc' = "range"
          /\ cycTodo' = cycTodo
          /\ \A c \in DOMAIN channels :
                /\ Len(channels'[c]) = Len(channels[c]) + 1
                /\ channels'[c][Len(channels'[c])].Type = MsgTypePositionUpdate
                /\ channels'[c][Len(channels'[c])].PlayerID = arbitratedPos.PlayerID
    /\ UpdateSent => cycPc = "bcast" /\ cycPc' = "range"
    /\ (cycPc \notin {"range", "bcast"} /\ cycPc' # cycPc) =>
          channels' = channels /\ players' = players

C23_UpdatePerReportedEntity == [](C23_TakenWindow) /\ [][C23_CycleStep]_vars

\* A pass that took a window with reports on Alice and on Bob has visited
\* both, and the last two messages of client_0's channel are the two
\* position_updates, one for each.
C23_Witness ==
    /\ cycPc = "range"
    /\ cycTodo = {}
    /\ DOMAIN cycReports = {"Alice", "Bob"}
    /\ "client_0" \in DOMAIN channels
    /\ Len(channels["client_0"]) >= 2
    /\ LET q == channels["client_0"]
       IN  /\ q[Len(q)].Type = MsgTypePositionUpdate
           /\ q[Len(q) - 1].Type = MsgTypePositionUpdate
           /\ {q[Len(q)].PlayerID, q[Len(q) - 1].PlayerID} = {"Alice", "Bob"}

(***************************************************************************)
(* Claims about the observer's kinematic methods, under SpecKin.           *)
(***************************************************************************)
\* The step is a direct call of method op on client c.
KinCalled(c, op) == cliCount'[c] = cliCount[c] + 1 /\ lastCall'.Op = op

\* C11: updatePlayerPosition(player, t) sets the stored position to
\* predictPosition of the state before the call at t, sets the checkpoint
\* to t, and leaves velocity and player id (and every other tracked state)
\* unchanged, for t later and for t earlier than the checkpoint.
C11_AdvanceCommitsPrediction ==
    [][ KinCalled(KinClient, "updatePlayerPosition") =>
          LET pid == lastCall'.PlayerID
              t   == lastCall'.targetTime
              old == localPlayers[KinClient][pid]
              new == localPlayers'[KinClient][pid]
          IN  /\ <<new.X, new.Y>> = predictPosition(old, t)
              /\ new.LastUpdateTime = t
              /\ new.VelocityX = old.VelocityX
              /\ new.VelocityY = old.VelocityY
              /\ new.PlayerID = old.PlayerID
              /\ DOMAIN localPlayers'[KinClient] = DOMAIN localPlayers[KinClient]
              /\ \A q \in DOMAIN localPlayers[KinClient] \ {pid} :
                    localPlayers'[KinClient][q] = localPlayers[KinClient][q]
      ]_vars

\* Alice, moving at (10,0) since checkpoint 2000, has been advanced back to
\* time 0.
C11_Witness ==
    /\ lastCall = [Op |-> "updatePlayerPosition", PlayerID |-> "Alice", targetTime |-> 0]
    /\ "Alice" \in DOMAIN localPlayers[KinClient]
    /\ localPlayers[KinClient]["Alice"] =
          LocalPlayerState("Alice", R(-20), R(0), R(10), R(0), 0)

\* C12: predictPosition(player, t) is position + velocity * (t - checkpoint)
\* / 1000 in each component, for t after and before the checkpoint (stated
\* multiplied through by 1000); a player at (0,0) given direction (1,0) at
\* time 0 is predicted at (20,0) for time 2000.
C12_PredictIsLinear ==
    [][ KinCalled(KinClient, "predictPosition") =>
          LET t   == lastCall'.targetTime
              st  == localPlayers[KinClient][lastCall'.PlayerID]
              out == lastCall'.Out
          IN  /\ RMul(out[1], R(1000)) =
                    RAdd(RMul(st.X, R(1000)),
                         RMul(st.VelocityX, R(t - st.LastUpdateTime)))
              /\ RMul(out[2], R(1000)) =
                    RAdd(RMul(st.Y, R(1000)),
                         RMul(st.VelocityY, R(t - st.LastUpdateTime)))
              /\ ( /\ <<st.X, st.Y>> = <<R(0), R(0)>>
                   /\ <<st.VelocityX, st.VelocityY>> = <<R(10), R(0)>>
                   /\ st.LastUpdateTime = 0
                   /\ t = 2000
                   => out = <<R(20), R(0)>> )
      ]_vars

\* After the move (1,0) at time 0 from (0,0), the prediction for time 2000
\* has been computed.
C12_Witness ==
    /\ lastCall = [Op |-> "predictPosition", PlayerID |-> "Alice", targetTime |-> 2000,
                   Out |-> <<R(20), R(0)>>]
    /\ "Alice" \in DOMAIN localPlayers[KinClient]
    /\ localPlayers[KinClient]["Alice"] =
          LocalPlayerState("Alice", R(0), R(0), R(10), R(0), 0)

\* C13: predictPosition, GetPlayerPosition and reportPositions leave every
\* tracked state (position, velocity, checkpoint) and the clock unchanged,
\* and predictPosition called again with the same arguments returns the
\* same result.
C13_ReadsArePure ==
    [][ /\ \A op \in {"predictPosition", "GetPlayerPosition", "reportPositions"} :
              KinCalled(KinClient, op) =>
                  localPlayers' = localPlayers /\ startTime' = startTime
        /\ ( /\ KinCalled(KinClient, "predictPosition")
             /\ lastCall.Op = "predictPosition"
             /\ lastCall'.PlayerID = lastCall.PlayerID
             /\ lastCall'.targetTime = lastCall.targetTime
             => lastCall'.Out = lastCall.Out )
      ]_vars

\* GetPlayerPosition has returned a projection (20,0) that differs from the
\* stored position (0,0), and the state still has its checkpoint 0.
C13_Witness ==
    /\ lastCall = [Op |-> "GetPlayerPosition", PlayerID |-> "Alice",
                   Out |-> <<R(20), R(0), TRUE>>]
    /\ "Alice" \in DOMAIN localPlayers[KinClient]
    /\ localPlayers[KinClient]["Alice"] =
          LocalPlayerState("Alice", R(0), R(0), R(10), R(0), 0)

\* C26: a self-report of an observer that tracks at least one entity is one
\* position_sync whose batch holds exactly one entry per tracked entity,
\* each with the position predicted from the entity's state at one common
\* reading of the observer's clock and with that reading as its time; it
\* is handed to the transport once (which enqueues it unless the server's
\* queue is full) and no tracked state changes; an observer that tracks
\* no entity hands nothing to the transport.
C26_ReportStep ==
    KinCalled(KinClient, "reportPositions") =>
        LET lp  == localPlayers[KinClient]
            now == wall - startTime[KinClient]
            ps  == lastCall'.Positions
        IN  /\ localPlayers' = localPlayers
            /\ DOMAIN lp = {} => ps = << >> /\ incoming' = incoming
            /\ DOMAIN lp # {} =>
                  /\ Len(ps) = Cardinality(DOMAIN lp)
                  /\ { ps[k].PlayerID : k \in 1..Len(ps) } = DOMAIN lp
                  /\ \A k \in 1..Len(ps) :
                        /\ <<ps[k].X, ps[k].Y>> = predictPosition(lp[ps[k].PlayerID], now)
                        /\ ps[k].GameTime = now
                  /\ incoming' =
                        IF Len(incoming) < MaxIncoming
                        THEN Append(incoming,
                                    MessageWithSender(KinClient, PositionSyncMsg(ps, now)))
                        ELSE incoming

C26_ReportIsOneBatch == [][C26_ReportStep]_vars

\* Alice, at (3,4) with velocity (10,0) since time 0, and Bob have been
\* reported in one batch at clock reading 2000: Alice at (23,4), while her
\* stored position is still (3,4).
C26_Witness ==
    /\ lastCall.Op = "reportPositions"
    /\ Len(lastCall.Positions) = 2
    /\ incoming = << MessageWithSender(KinClient,
                                       PositionSyncMsg(lastCall.Positions, 2000)) >>
    /\ \E k \in 1..2 : lastCall.Positions[k] = PositionData("Alice", R(23), R(4), 2000)
    /\ localPlayers[KinClient]["Alice"] =
          LocalPlayerState("Alice", R(3), R(4), R(10), R(0), 0)

(***************************************************************************)
(* Claims about the observer's corrections and clock, under SpecClient.    *)
(***************************************************************************)
\* The step is messageLoop's handling of a message of type ty by client c.
Handles(c, ty) ==
    /\ cliPc[c] = "handle"
    /\ cliPc'[c] = "recv"
    /\ cliMsg[c].Type = ty

\* The square of the distance between two points.
Dist2(p, q) ==
    RAdd(RMul(RSub(p[1], q[1]), RSub(p[1], q[1])),
         RMul(RSub(p[2], q[2]), RSub(p[2], q[2])))

\* C14: handling a position_update (x, y, t) for a tracked entity leaves the
\* entity's state entirely unchanged when the distance between the
\* prediction at t and (x, y) is at most 0.5 (squared: at most 1/4), and
\* otherwise sets the position to (x, y) and the checkpoint to t with the
\* velocity unchanged.
C14_CorrectionThreshold ==
    [][ \A c \in Clients :
          (Handles(c, MsgTypePositionUpdate)
              /\ cliMsg[c].PlayerID \in DOMAIN localPlayers[c]) =>
              LET m   == cliMsg[c]
                  old == localPlayers[c][m.PlayerID]
                  new == localPlayers'[c][m.PlayerID]
                  d2  == Dist2(predictPosition(old, m.GameTime), <<m.X, m.Y>>)
              IN  /\ m.PlayerID \in DOMAIN localPlayers'[c]
                  /\ RLe(d2, Frac(1, 4)) => new = old
                  /\ ~RLe(d2, Frac(1, 4)) =>
                        new = [old EXCEPT !.X = m.X, !.Y = m.Y,
                                          !.LastUpdateTime = m.GameTime]
      ]_vars

\* An update at distance exactly 0.5 from the prediction has been handled
\* and the state is as it was.
C14_Witness ==
    \E c \in Clients :
        /\ cliPc[c] = "recv"
        /\ cliMsg[c] = PositionUpdateMsg("Alice", Frac(3, 10), Frac(4, 10), 0)
        /\ "Alice" \in DOMAIN localPlayers[c]
        /\ localPlayers[c]["Alice"] = LocalPlayerState("Alice", R(0), R(0), R(0), R(0), 0)

\* C18: handling a time_sync carrying T rebases the client's clock to T when
\* the clock's reading differs from T by more than 100 ms, and leaves the
\* clock's epoch unchanged when the difference is at most 100 ms; tracked
\* states are not touched.
C18_RebaseThreshold ==
    [][ \A c \in Clients :
          Handles(c, MsgTypeTimeSync) =>
              LET T        == cliMsg[c].GameTime
                  localNow == wall - startTime[c]
                  far      == localNow - T > 100 \/ T - localNow > 100
              IN  /\ far => wall' - startTime'[c] = T /\ startTime'[c] # startTime[c]
                  /\ ~far => startTime'[c] = startTime[c]
                  /\ \A q \in Clients \ {c} : startTime'[q] = startTime[q]
                  /\ localPlayers' = localPlayers
      ]_vars

\* A time_sync of 100 has been handled by a clock reading 0 and the clock
\* still reads 0.
C18_Witness ==
    \E c \in Clients :
        /\ cliPc[c] = "recv"
        /\ cliMsg[c] = TimeSyncMsg(100)
        /\ cliCount[c] = 1
        /\ wall = 0
        /\ startTime[c] = 0

\* C19: a client's clock epoch changes only by SetGameTime(t) in the
\* handling of a welcome or a time_sync, and right after it the clock reads
\* t, whether t is below or above the previous reading; while the epoch is
\* unchanged the reading never decreases and grows by exactly the wall time
\* elapsed.
C19_RebaseAndMonotone ==
    [][ \A c \in Clients :
          /\ startTime'[c] # startTime[c] =>
                /\ Handles(c, MsgTypeWelcome) \/ Handles(c, MsgTypeTimeSync)
                /\ wall' - startTime'[c] = cliMsg[c].GameTime
          /\ startTime'[c] = startTime[c] =>
                /\ (wall' - startTime'[c]) - (wall - startTime[c]) = wall' - wall
                /\ wall' - startTime'[c] >= wall - startTime[c]
      ]_vars

\* The clock, which read at least 101, has been rebased backward to 0 by a
\* time_sync and reads 0.
C19_Witness ==
    \E c \in Clients :
        /\ cliPc[c] = "recv"
        /\ cliMsg[c] = TimeSyncMsg(0)
        /\ wall >= 101
        /\ wall - startTime[c] = 0

(***************************************************************************)
(* Claims about the authority's handling of moves, under SpecServer.       *)
(***************************************************************************)
\* C16: handling a move appends to the channel of every registered client,
\* the sender included, a move_command with the same player id, direction
\* vector and game time, and changes neither the roster (no position is
\* computed) nor the report window.
C16_MoveRebroadcastVerbatim ==
    [][ srvPc = "move" /\ srvPc' # "move" =>
          LET m == srvMsg.Message
              command == [Type |-> "move_command", PlayerID |-> m.PlayerID,
                          VectorX |-> m.VectorX, VectorY |-> m.VectorY,
                          GameTime |-> m.GameTime]
          IN  /\ srvMsg.ClientID \in DOMAIN channels
              /\ DOMAIN channels' = DOMAIN channels
              /\ \A c \in DOMAIN channels : channels'[c] = Append(channels[c], command)
              /\ players' = players
              /\ positionReports' = positionReports
      ]_vars

\* client_0's move for Alice has been rebroadcast and is the newest message
\* in every client's channel, client_0's included.
C16_Witness ==
    /\ srvPc = "recv"
    /\ DOMAIN channels = Clients
    /\ \A c \in Clients :
          /\ channels[c] # << >>
          /\ channels[c][Len(channels[c])] = MoveCommandMsg("Alice", R(1), R(0), 0)

(***************************************************************************)
(* Claims about LocalTransport, under SpecTransport.                       *)
(***************************************************************************)
\* The step is a direct call of the transport method op.
NetCalled(op) == lastCall'.N = lastCall.N + 1 /\ lastCall'.Op = op

\* C20: Send(id, msg) can always be taken to completion (it never waits),
\* it returns an error exactly when the id is not registered, the transport
\* is closed or the recipient's channel holds 100 messages, and then every
\* queue is unchanged; otherwise msg is appended to that recipient's
\* channel and nothing else changes.
C20_SendStep ==
    NetCalled("Send") =>
        LET c     == lastCall'.ClientID
            fails == lastCall'.Err # "nil"
        IN  /\ fails <=> \/ c \notin DOMAIN channels
                         \/ closed
                         \/ Len(channels[c]) = 100
            /\ fails => channels' = channels
            /\ ~fails =>
                  /\ DOMAIN channels' = DOMAIN channels
                  /\ channels'[c] = Append(channels[c], lastCall'.Msg)
                  /\ \A q \in DOMAIN channels \ {c} : channels'[q] = channels[q]
            /\ incoming' = incoming
            /\ closed' = closed

C20_SendNeverBlocks ==
    (lastCall.N < MaxCalls /\ ~Crashed) => \A c \in Clients : ENABLED SendCall(c)

C20_SendFailsOrAppends == [](C20_SendNeverBlocks) /\ [][C20_SendStep]_vars

\* Send to client_0 has failed on its full channel, which still holds 100
\* messages.
C20_Witness ==
    /\ lastCall.Op = "Send"
    /\ lastCall.ClientID = "client_0"
    /\ lastCall.Err = "client channel full"
    /\ ~closed
    /\ "client_0" \in DOMAIN channels
    /\ Len(channels["client_0"]) = 100

\* C21: Broadcast(msg, excludeID) on an open transport appends exactly one
\* copy of msg to the channel of every registered client other than
\* excludeID whose channel holds fewer than 100 messages, and leaves every
\* other channel (the excluded one, the full ones) and the set of
\* registered clients as they were: a full channel does not keep the
\* message from any other recipient.
C21_BroadcastStep ==
    (NetCalled("Broadcast") /\ ~closed) =>
        /\ DOMAIN channels' = DOMAIN channels
        /\ \A q \in DOMAIN channels :
              channels'[q] =
                 IF q # lastCall'.ClientID /\ Len(channels[q]) < 100
                 THEN Append(channels[q], lastCall'.Msg)
                 ELSE channels[q]
        /\ incoming' = incoming
        /\ closed' = closed

C21_BroadcastBestEffort == [][C21_BroadcastStep]_vars

\* Broadcast to everybody has skipped client_0, whose channel was full (its
\* 100th message is not the broadcast one), and has delivered to client_1.
C21_Witness ==
    /\ lastCall.Op = "Broadcast"
    /\ lastCall.ClientID = ""
    /\ ~closed
    /\ DOMAIN channels = {"client_0", "client_1"}
    /\ Len(channels["client_0"]) = 100
    /\ channels["client_0"][100] # lastCall.Msg
    /\ channels["client_1"] = << lastCall.Msg >>

\* C22: on a closed transport Register(id) and Unregister(id) return an
\* error for every id, registered before the close or not, a further
\* Close changes nothing, and none of the three calls panics; each leaves
\* the queues as they are.
C22_StepAfterClose ==
    closed =>
        /\ NetCalled("Register") =>
              /\ lastCall'.Err \notin {"nil", "panic: close of closed channel"}
              /\ channels' = channels
        /\ NetCalled("Unregister") =>
              /\ lastCall'.Err \notin {"nil", "panic: close of closed channel"}
              /\ channels' = channels
        /\ NetCalled("Close") =>
              /\ lastCall'.Err = "nil"
              /\ channels' = channels
              /\ incoming' = incoming
              /\ closed'

C22_FailAfterClose == [][C22_StepAfterClose]_vars

(***************************************************************************)
(* Claims checked under SpecSystem.                                        *)
(***************************************************************************)
\* C15: once every observer has processed all messages sent to it so far,
\* the positions any two observers compute for the same tracked entity at
\* the same logical time (the authority's game time) are less than 1.0
\* apart (squared distance below 1), whatever the order of joins and moves.
C15_ObserversAgree ==
    Quiescent =>
        \A c1, c2 \in Clients :
            \A pid \in DOMAIN localPlayers[c1] \cap DOMAIN localPlayers[c2] :
                RLt(Dist2(predictPosition(localPlayers[c1][pid], GetGameTime(srvStart)),
                          predictPosition(localPlayers[c2][pid], GetGameTime(srvStart))),
                    R(1))

(***************************************************************************)
(* Claims checked under SpecStop.                                          *)
(***************************************************************************)
\* The loops a participant has started.
LoopsOf(p) == IF p = "server" THEN ServerLoops ELSE ClientLoops

\* C17: after a participant's stop signal is raised, every loop of that
\* participant eventually exits, whether or not any other participant
\* acts and whether or not any further message arrives.
C17_LoopsExitAfterStop ==
    \A p \in Participants :
        [](stopChan[p] => <>(\A l \in LoopsOf(p) : loopPc[<<p, l>>] = "exited"))

(***************************************************************************)
(* Claims checked under SpecRace.                                          *)
(***************************************************************************)
\* C24: a client's SendToServer that races with the transport being closed
\* either enqueues its message before the close or returns an error: it
\* never tries to enqueue on the closed incoming channel, which would
\* panic.
C24_SendRaceNonFatal ==
    /\ ~SendPanicked
    /\ SendInProgress => ~closed

(***************************************************************************)
(* Claims checked under SpecTwin.                                          *)
(***************************************************************************)
TwinQueryTimes == {-100, 0, 100, 150, 1000}

\* C25: two observers that held the same position of an entity with zero
\* velocity and have handled the same sequence of move commands for it
\* predict the same position of it for every logical time, whatever their
\* clocks read and whatever the wall clock was when each handled each
\* command.
C25_TimestampsNotArrival ==
    (Quiescent /\ cliCount["client_0"] = cliCount["client_1"]) =>
        \A pid \in TwinPlayers, t \in TwinQueryTimes :
            predictPosition(localPlayers["client_0"][pid], t) =
               predictPosition(localPlayers["client_1"][pid], t)

\* Both observers, whose clocks differ, have handled the same two or more
\* commands, client_1 later than the last command was sent, and Alice is
\* moving.
C25_Witness ==
    /\ Quiescent
    /\ cliCount["client_0"] >= 2
    /\ cliCount["client_1"] = cliCount["client_0"]
    /\ startTime["client_0"] # startTime["client_1"]
    /\ localPlayers["client_0"]["Alice"].LastUpdateTime > 0
    /\ localPlayers["client_0"]["Alice"].VelocityX # R(0)
    /\ cliMsg["client_1"].Type = MsgTypeMoveCommand
    /\ cliMsg["client_1"].GameTime < GetGameTime(startTime["client_1"])

(***************************************************************************)
(* Claims checked under SpecDecode.                                        *)
(***************************************************************************)
\* The payload of msg does not decode.
Undecodable(msg) == "Malformed" \in DOMAIN msg

ClientTypes ==
    {MsgTypeWelcome, MsgTypePlayerJoined, MsgTypeMoveCommand, MsgTypeTimeSync,
     MsgTypePositionUpdate}
ServerTypes == {MsgTypeJoin, MsgTypeMove, MsgTypePositionSync}

\* C27: a message whose payload fails to decode, or whose type tag is
\* unknown, is dropped: handling it leaves the receiver's state (the
\* server's roster, report window, clock and its clients' channels; the
\* client's tracked states and clock) unchanged, and the receiving loop is
\* back at its receive, ready for the next message.
C27_DropStep ==
    /\ \A c \in Clients :
          ( /\ cliPc[c] = "handle"
            /\ cliPc'[c] # "handle"
            /\ Undecodable(cliMsg[c]) \/ cliMsg[c].Type \notin ClientTypes )
          => /\ cliPc'[c] = "recv"
             /\ startTime' = startTime
             /\ localPlayers' = localPlayers
    /\ ( /\ srvPc \in {"join", "move", "sync_lock"}
         /\ Undecodable(srvMsg.Message)
         /\ srvPc' # srvPc )
       => /\ srvPc' = "recv"
          /\ players' = players
          /\ positionReports' = positionReports
          /\ reportMu' = reportMu
          /\ srvStart' = srvStart
          /\ channels' = channels
    /\ ( /\ srvPc = "recv"
         /\ incoming # << >>
         /\ incoming' = Tail(incoming)
         /\ Head(incoming).Message.Type \notin ServerTypes )
       => /\ srvPc' = "recv"
          /\ players' = players
          /\ positionReports' = positionReports
          /\ reportMu' = reportMu
          /\ srvStart' = srvStart
          /\ channels' = channels

C27_BadMessagesDropped == [][C27_DropStep]_vars

\* The client, tracking Alice on the move, has dropped an undecodable
\* position_update, and the server, with Alice in its roster and a report
\* in its window, has dropped an undecodable join.
C27_Witness ==
    /\ cliPc[DecClient] = "recv"
    /\ cliMsg[DecClient] = Malformed(PositionUpdateMsg("Alice", R(5), R(0), 100))
    /\ "Alice" \in DOMAIN localPlayers[DecClient]
    /\ localPlayers[DecClient]["Alice"].VelocityX = R(10)
    /\ localPlayers[DecClient]["Alice"].X = R(0)
    /\ srvPc = "recv"
    /\ srvMsg.Message = Malformed(JoinMsg("Alice"))
    /\ "Alice" \in DOMAIN players
    /\ "Alice" \in DOMAIN positionReports

====
